---- MODULE Spec2Model ----
(***************************************************************************)
(* Vector-store management layer of the documentation server:              *)
(*   - the multi-level query cache   (src/src/vector-db/query-cache.ts)    *)
(*   - the storage adapter           (src/src/vector-db/lance-db.ts)       *)
(*   - the migration engine          (src/unnamed/part_001)                *)
(* Each component has its own variables and its own specification; a       *)
(* specification leaves the variables of the other components untouched.   *)
(***************************************************************************)
EXTENDS Integers, Sequences, FiniteSets, TLC

(***************************************************************************)
(* Bounds of the model.                                                    *)
(***************************************************************************)
\* Wall-clock horizon of the cache model, in seconds.
MaxClock == 2
\* Longest latency of one L2 (Redis) round trip, in seconds.
MaxLatency == 1

\* Largest l1.maxSize of the eviction model.
MaxSize == 2
\* Lookups counted between two resets of the statistics at most.
MaxLookups == 2
\* Evictions counted between two resets of the statistics at most.
MaxEvictions == 1

\* Milliseconds per second (Math.ceil(ttl / 1000) in QueryCache.set).
MsPerSecond == 1000

(***************************************************************************)
(* ---------------------------  QUERY CACHE  ----------------------------- *)
(***************************************************************************)
VARIABLES
    l1Cache,      \* Map<string, L1Entry>, in insertion order
    l2Redis,      \* "null" or "client": the ioredis handle of the instance
    initialized,  \* QueryCache.initialized
    config,       \* QueryCacheConfig given to the constructor
    redisStore,   \* contents of the Redis server: key -> entry or NoEntry
    now,          \* Date.now(), in milliseconds
    hung,         \* TRUE once a call spins forever inside setL1
    ret,          \* what the last completed cache call did and returned
    l1Stats,      \* QueryCache.l1Stats: hits, misses, evictions
    l2Stats,      \* QueryCache.l2Stats: hits, misses
    pending,      \* the calls suspended on a Redis reply, in the order sent
    invalidated,  \* keys whose invalidate has completed, no set issued since
    clients       \* the Redis clients created and not yet quit

\* The statistics counters.  No handler reads them (getStats alone does), so
\* a specification that does not follow them has the same behaviours on the
\* other variables; SpecStats is the specification that follows them.
statsVars == <<l1Stats, l2Stats>>

\* The calls suspended on a reply of Redis.  SpecInflight and SpecConnect
\* follow them; in the other specifications every call runs to its end
\* before the next one starts.
inflightVars == <<pending, invalidated, clients>>

cacheVars == <<l1Cache, l2Redis, initialized, config, redisStore, now, hung, ret,
               statsVars, inflightVars>>

(***************************************************************************)
(* --------------------------  STORAGE ADAPTER  -------------------------- *)
(***************************************************************************)
VARIABLES
    adapterInitialized, \* LanceDBAdapter.initialized
    table,              \* LanceDBAdapter.table: "null" or "open"
    chunksTable,        \* the engine's chunks table: does it exist, its rows
    chunksIndex,        \* its vector index: "none", "building" or "ready"
    codeBlocksTable,    \* LanceDBAdapter.codeBlocksTable: "null" or "open"
    blocksTable,        \* the engine's code_blocks table: does it exist, its rows
    blocksIndex,        \* its vector index: "none", "building" or "ready"
    adRet,              \* what the last completed adapter call did and returned
    creating            \* the add calls suspended in `await db.createTable(...)`

adapterVars == <<adapterInitialized, table, chunksTable, chunksIndex,
                 codeBlocksTable, blocksTable, blocksIndex, adRet, creating>>

(***************************************************************************)
(* -----------------------------  MIGRATION  ----------------------------- *)
(***************************************************************************)
VARIABLES
    dbs,        \* the database directories on disk: path -> tables, or no directory
    dbs0,       \* the directories as they were when the migration was called
    options,    \* MigrationOptions of the call
    migPc,      \* where migrateToV1 stands
    oldDbPath,  \* the directory chosen as the source
    result,     \* MigrationResultV1
    allRows,    \* the rows the running phase read from the source
    cursor,     \* the loop index i of the running phase
    lastWrite,  \* the last destination write: attempts made and how it ended
    rounds,     \* schema preparations completed
    files       \* fs.readdirSync(parentDir): the names, in the order returned

migrationVars == <<dbs, dbs0, options, migPc, oldDbPath, result, allRows, cursor,
                   lastWrite, rounds, files>>

(***************************************************************************)
(* -----------------------------  UTILITIES  ----------------------------- *)
(***************************************************************************)
VARIABLES
    env,        \* process.env: the timeout variables
    fnCall      \* the last call of a utility function: arguments and outcome

utilityVars == <<env, fnCall>>

\* What a step of one component leaves alone: the other components.
besidesInflight == <<statsVars, adapterVars, migrationVars, utilityVars>>
besidesStats == <<inflightVars, adapterVars, migrationVars, utilityVars>>
besidesCache == <<statsVars, besidesStats>>
\* SpecRace follows the calls suspended in createTable; in the other adapter
\* specifications every call runs to its end before the next one starts.
besidesRace == <<cacheVars, migrationVars, utilityVars>>
besidesAdapter == <<creating, besidesRace>>
\* SpecLocate follows the directory listing; the other migration
\* specifications hold the one backup they start with in dbs.
besidesLocate == <<cacheVars, adapterVars, utilityVars>>
besidesUtility == <<cacheVars, adapterVars, migrationVars>>
besidesMigration == <<files, besidesLocate>>

(***************************************************************************)
(* Query objects.  An object is the sequence of its properties in the      *)
(* order they were set; a property holds a scalar or a nested object.      *)
(***************************************************************************)
Scalar(n, v) == [name |-> n, kind |-> "scalar", val |-> v, obj |-> <<>>]
Nested(n, o) == [name |-> n, kind |-> "object", val |-> "", obj |-> o]

\* Property names in the order of Array.prototype.sort() (code-unit order).
FieldOrder == <<"filters", "limit", "query", "source">>

Queries ==
    { <<Scalar("query", "x"), Scalar("limit", "5")>>,
      <<Scalar("limit", "5"), Scalar("query", "x")>>,
      <<Scalar("query", "x"), Nested("filters", <<Scalar("source", "a")>>)>>,
      <<Nested("filters", <<Scalar("source", "b")>>), Scalar("query", "x")>> }

\* Object.keys(query)
ObjectKeys(o) == { o[i].name : i \in 1..Len(o) }

\* Object.keys(query).sort(): the names of o as a sequence in sorted order.
RECURSIVE SortedFrom(_, _)
SortedFrom(names, i) ==
    IF i > Len(FieldOrder) THEN <<>>
    ELSE (IF FieldOrder[i] \in names THEN <<FieldOrder[i]>> ELSE <<>>)
         \o SortedFrom(names, i + 1)

SortedKeys(o) == SortedFrom(ObjectKeys(o), 1)

\* The property of o named n (objects hold each name once).
Prop(o, n) == o[CHOOSE i \in 1..Len(o) : o[i].name = n]

(***************************************************************************)
(* JSON.stringify(value, allowList): the text as a sequence of tokens.     *)
(* With an array replacer, every object of the value, nested ones          *)
(* included, is written with exactly the listed properties it has, in the  *)
(* order of the list.                                                      *)
(***************************************************************************)
RECURSIVE StringifyObject(_, _)
RECURSIVE StringifyProps(_, _, _, _)
StringifyProps(o, allow, i, first) ==
    IF i > Len(allow) THEN <<>>
    ELSE IF allow[i] \in ObjectKeys(o)
         THEN LET p == Prop(o, allow[i])
              IN  (IF first THEN <<>> ELSE <<",">>)
                  \o <<p.name, ":">>
                  \o (IF p.kind = "scalar" THEN <<p.val>>
                      ELSE StringifyObject(p.obj, allow))
                  \o StringifyProps(o, allow, i + 1, FALSE)
         ELSE StringifyProps(o, allow, i + 1, first)

StringifyObject(o, allow) == <<"{">> \o StringifyProps(o, allow, 1, TRUE) \o <<"}">>

\* JSON.stringify(value) without a replacer: own properties in construction
\* order, nested objects in full.
RECURSIVE StringifyInOrder(_, _)
StringifyInOrder(o, first) ==
    IF o = <<>> THEN <<>>
    ELSE (IF first THEN <<>> ELSE <<",">>)
         \o <<o[1].name, ":">>
         \o (IF o[1].kind = "scalar" THEN <<o[1].val>>
             ELSE <<"{">> \o StringifyInOrder(o[1].obj, TRUE) \o <<"}">>)
         \o StringifyInOrder(Tail(o), FALSE)

\* Mutant of getCacheKey: the sorted key list is not passed to stringify.
getCacheKeyUnsorted(query) == <<"query:", "{">> \o StringifyInOrder(query, TRUE) \o <<"}">>

\* QueryCache.getCacheKey: `query:` + base64 of the sorted-key JSON text.
\* base64 is a one-to-one re-encoding of the text, kept here as the text.
getCacheKey(query) == <<"query:">> \o StringifyObject(query, SortedKeys(query))

\* Three queries with three different keys, to fill L1 and overflow it.
EvictionQueries ==
    { <<Scalar("query", "x")>>, <<Scalar("query", "y")>>, <<Scalar("query", "z")>> }

\* The key of every query of the model, computed once.
KeyOf == [q \in Queries \cup EvictionQueries |-> getCacheKey(q)]

CacheKeys == { KeyOf[q] : q \in Queries \cup EvictionQueries }

(***************************************************************************)
(* Cached values and their JSON round trip through L2.                     *)
(*   "rows": plain JSON data, unchanged by stringify/parse                 *)
(*   "date": a value holding a Date; stringify writes an ISO string and    *)
(*           parse reads it back as a string ("iso"), not as a Date        *)
(***************************************************************************)
Values == {"rows", "date"}
Null == "null"

JsonStringify(v) == IF v = "date" THEN "text:iso" ELSE IF v = "iso" THEN "text:iso"
                    ELSE "text:rows"
JsonParse(s) == IF s = "text:iso" THEN "iso" ELSE "rows"

NoEntry == [data |-> "none", expires |-> 0]

(***************************************************************************)
(* Configurations the constructor is given.                                *)
(***************************************************************************)
Configs ==
    [ l1MaxSize : {1, 2}, l1Ttl : {1000, 2000}, l2Enabled : {FALSE}, l2Ttl : {1500} ]
    \cup
    [ l1MaxSize : {1}, l1Ttl : {1000, 2000}, l2Enabled : {TRUE}, l2Ttl : {1500} ]

NoRet == [op |-> "none", query |-> <<>>, pattern |-> "", data |-> Null,
          tier |-> "none", l2read |-> FALSE, l2err |-> FALSE, raised |-> FALSE,
          afterInvalidate |-> FALSE]

\* No call is suspended and no client has been created.
NoneInflight ==
    /\ pending = <<>>
    /\ invalidated = {}
    /\ clients = 0

\* The counters as the constructor leaves them.
NoL1Stats == [hits |-> 0, misses |-> 0, evictions |-> 0]
NoL2Stats == [hits |-> 0, misses |-> 0]

InitCache ==
    /\ l1Cache = <<>>
    /\ l2Redis = "null"
    /\ initialized = FALSE
    /\ config \in Configs
    /\ redisStore = [k \in CacheKeys |-> NoEntry]
    /\ now = 0
    /\ hung = FALSE
    /\ ret = NoRet
    /\ l1Stats = NoL1Stats
    /\ l2Stats = NoL2Stats
    /\ NoneInflight

(***************************************************************************)
(* L1: the Map, as the sequence of its entries in insertion order.         *)
(***************************************************************************)
L1Has(c, k) == \E i \in 1..Len(c) : c[i].key = k
L1Get(c, k) == c[CHOOSE i \in 1..Len(c) : c[i].key = k]
L1Delete(c, k) == SelectSeq(c, LAMBDA e : e.key # k)
L1Keys(c) == { c[i].key : i \in 1..Len(c) }

\* The eviction loop of setL1: drop the first key while size >= maxSize.
RECURSIVE EvictLoop(_)
EvictLoop(c) ==
    IF Len(c) >= config.l1MaxSize /\ c # <<>> THEN EvictLoop(Tail(c)) ELSE c

\* The loop never ends when size >= maxSize still holds on the empty map.
SetL1Hangs == config.l1MaxSize <= 0

\* Mutant of setL1: the eviction runs but the entry is never stored.
setL1Skipped(c, key, data, t) == EvictLoop(c)

\* QueryCache.setL1 at time t.  Map.set keeps the position of a key that is
\* still present and appends a new one.
setL1(c, key, data, t) ==
    LET kept  == EvictLoop(c)
        entry == [key |-> key, data |-> data,
                  expires |-> t + config.l1Ttl, createdAt |-> t]
    IN  IF L1Has(kept, key)
        THEN [i \in 1..Len(kept) |-> IF kept[i].key = key THEN entry ELSE kept[i]]
        ELSE Append(kept, entry)

(***************************************************************************)
(* L2: the Redis server.  A key written by SETEX is gone once its expiry   *)
(* has been reached.                                                       *)
(***************************************************************************)
RedisHas(k, t) == redisStore[k] # NoEntry /\ redisStore[k].expires > t

\* Math.ceil(this.config.l2.ttl / 1000)
ttlSeconds == (config.l2Ttl + MsPerSecond - 1) \div MsPerSecond

Horizon == MaxClock * MsPerSecond
Latencies == { s * MsPerSecond : s \in 0..MaxLatency }

\* The handle initialize() leaves in l2Redis: a client when L2 is enabled and
\* the ping succeeds, null otherwise.
Connect(connOk) == IF config.l2Enabled /\ connOk THEN "client" ELSE "null"

\* A call that finds the cache uninitialized awaits initialize() first.
ClientAfterInit(connOk) == IF initialized THEN l2Redis ELSE Connect(connOk)
TimeAfterInit(dp) == IF ~initialized /\ config.l2Enabled THEN now + dp ELSE now
\* connOk and dp are read only when initialize() contacts Redis.
InitInputsUsed(connOk, dp) ==
    (initialized \/ ~config.l2Enabled) => (connOk /\ dp = 0)

(***************************************************************************)
(* QueryCache.initialize                                                   *)
(***************************************************************************)
Initialize(connOk, dp) ==
    /\ ~hung
    /\ ~initialized
    /\ InitInputsUsed(connOk, dp)
    /\ TimeAfterInit(dp) <= Horizon
    /\ initialized' = TRUE
    /\ l2Redis' = Connect(connOk)
    /\ now' = TimeAfterInit(dp)
    /\ ret' = [NoRet EXCEPT !.op = "initialize", !.l2err = (config.l2Enabled /\ ~connOk)]
    /\ UNCHANGED <<l1Cache, config, redisStore, hung>>

(***************************************************************************)
(* QueryCache.get                                                          *)
(***************************************************************************)
\* Mutant of the L1 test of get: the expiry comparison is the wrong way round.
L1FreshWrongTest(c, key, t) == L1Has(c, key) /\ L1Get(c, key).expires <= t

\* `l1Entry && l1Entry.expires > Date.now()`
L1Fresh(c, key, t) == L1Has(c, key) /\ L1Get(c, key).expires > t

\* Mutant of the L1 hit path: a hit renews the entry (sliding expiry).
L1AfterHitSliding(c, key, t) ==
    [i \in 1..Len(c) |-> IF c[i].key = key
                         THEN [c[i] EXCEPT !.expires = t + config.l1Ttl]
                         ELSE c[i]]

\* Mutant of the L1 hit path: a hit moves the entry to the end (LRU order).
L1AfterHitMovedLast(c, key, t) == Append(L1Delete(c, key), L1Get(c, key))

\* The L1 map after an L1 hit: get returns without touching it.
L1AfterHit(c, key, t) == c

Get(q, connOk, dp, l2Ok, d) ==
    /\ ~hung
    /\ InitInputsUsed(connOk, dp)
    /\ LET key    == KeyOf[q]
           client == ClientAfterInit(connOk)
           t0     == TimeAfterInit(dp)
           hit    == L1Fresh(l1Cache, key, t0)
           c1     == L1Delete(l1Cache, key)
           useL2  == ~hit /\ client = "client" /\ config.l2Enabled
           t1     == IF useL2 THEN t0 + d ELSE t0
           l2hit  == useL2 /\ l2Ok /\ RedisHas(key, t0)
           parsed == JsonParse(redisStore[key].data)
       IN  /\ ~useL2 => (l2Ok /\ d = 0)
           /\ t1 <= Horizon
           /\ initialized' = TRUE
           /\ l2Redis' = client
           /\ now' = t1
           /\ IF hit
              THEN /\ l1Cache' = L1AfterHit(l1Cache, key, t0)
                   /\ hung' = FALSE
                   /\ ret' = [NoRet EXCEPT !.op = "get", !.query = q,
                                 !.data = L1Get(l1Cache, key).data,
                                 !.tier = "l1"]
              ELSE IF l2hit
              THEN /\ hung' = SetL1Hangs
                   /\ l1Cache' = IF SetL1Hangs THEN EvictLoop(c1)
                                  ELSE setL1(c1, key, parsed, t1)
                   /\ ret' = IF SetL1Hangs THEN ret
                             ELSE [NoRet EXCEPT !.op = "get", !.query = q,
                                      !.data = parsed, !.tier = "l2",
                                      !.l2read = TRUE]
              ELSE /\ l1Cache' = c1
                   /\ hung' = FALSE
                   /\ ret' = [NoRet EXCEPT !.op = "get", !.query = q,
                                 !.tier = "miss", !.l2read = useL2,
                                 !.l2err = (useL2 /\ ~l2Ok)]
    /\ UNCHANGED <<config, redisStore>>

(***************************************************************************)
(* QueryCache.set                                                          *)
(***************************************************************************)
Set(q, v, connOk, dp, l2Ok, d) ==
    /\ ~hung
    /\ InitInputsUsed(connOk, dp)
    /\ LET key    == KeyOf[q]
           client == ClientAfterInit(connOk)
           t0     == TimeAfterInit(dp)
           useL2  == ~SetL1Hangs /\ client = "client" /\ config.l2Enabled
           t1     == IF useL2 THEN t0 + d ELSE t0
       IN  /\ ~useL2 => (l2Ok /\ d = 0)
           /\ t1 <= Horizon
           /\ initialized' = TRUE
           /\ l2Redis' = client
           /\ now' = t1
           /\ hung' = SetL1Hangs
           /\ l1Cache' = IF SetL1Hangs THEN EvictLoop(l1Cache)
                          ELSE setL1(l1Cache, key, v, t0)
           /\ redisStore' =
                IF useL2 /\ l2Ok
                THEN [redisStore EXCEPT ![key] =
                        [data |-> JsonStringify(v),
                         expires |-> t1 + ttlSeconds * MsPerSecond]]
                ELSE redisStore
           /\ ret' = IF SetL1Hangs THEN ret
                     ELSE [NoRet EXCEPT !.op = "set", !.query = q, !.data = v,
                              !.l2err = (useL2 /\ ~l2Ok)]
    /\ UNCHANGED config

(***************************************************************************)
(* QueryCache.invalidate (it does not call initialize)                     *)
(***************************************************************************)
Invalidate(q, l2Ok, d) ==
    /\ ~hung
    /\ LET key   == KeyOf[q]
           useL2 == l2Redis = "client" /\ config.l2Enabled
           t1    == IF useL2 THEN now + d ELSE now
       IN  /\ ~useL2 => (l2Ok /\ d = 0)
           /\ t1 <= Horizon
           /\ now' = t1
           /\ l1Cache' = L1Delete(l1Cache, key)
           /\ redisStore' = IF useL2 /\ l2Ok
                            THEN [redisStore EXCEPT ![key] = NoEntry]
                            ELSE redisStore
           /\ ret' = [NoRet EXCEPT !.op = "invalidate", !.query = q,
                         !.l2err = (useL2 /\ ~l2Ok)]
    /\ UNCHANGED <<l2Redis, initialized, config, hung>>

(***************************************************************************)
(* QueryCache.close: quit() is awaited outside any try block, so a failing *)
(* quit rejects close() before L1 is cleared.                              *)
(***************************************************************************)
Close(quitOk) ==
    /\ ~hung
    /\ l2Redis = "null" => quitOk
    /\ IF l2Redis = "client" /\ ~quitOk
       THEN /\ ret' = [NoRet EXCEPT !.op = "close", !.l2err = TRUE,
                          !.raised = TRUE]
            /\ UNCHANGED <<l1Cache, l2Redis, initialized>>
       ELSE /\ l2Redis' = "null"
            /\ l1Cache' = <<>>
            /\ initialized' = FALSE
            /\ ret' = [NoRet EXCEPT !.op = "close"]
    /\ UNCHANGED <<config, redisStore, now, hung>>

\* Time passes between two calls: the next call does not follow at once.
Tick ==
    /\ ~hung
    /\ now + MsPerSecond <= Horizon
    /\ now' = now + MsPerSecond
    /\ ret' = NoRet
    /\ UNCHANGED <<l1Cache, l2Redis, initialized, config, redisStore, hung>>

(***************************************************************************)
(* Key patterns of invalidatePattern.  A pattern of the model is           *)
(* `<first token>*`; the client library prepends keyPrefix to the key      *)
(* arguments of a command (GET, SETEX, DEL), not to the pattern of KEYS,   *)
(* and the names KEYS replies with are the names the server holds.         *)
(***************************************************************************)
Patterns == {"query:", "other:"}

\* The name under which the server holds what the client calls `key`.
ServerKey(prefix, key) == (IF prefix = "" THEN <<>> ELSE <<prefix>>) \o key

\* Does the server name match `${keyPrefix}${pattern}`?
GlobMatches(prefix, pattern, name) ==
    LET head == ServerKey(prefix, <<pattern>>)
    IN  Len(name) >= Len(head) /\ SubSeq(name, 1, Len(head)) = head

\* The reply of KEYS at time t: the live server names matching the pattern.
KeysReply(pattern, t) ==
    { ServerKey(config.l2KeyPrefix, k) :
        k \in { c \in CacheKeys :
                  /\ RedisHas(c, t)
                  /\ GlobMatches(config.l2KeyPrefix, pattern,
                                 ServerKey(config.l2KeyPrefix, c)) } }

\* The keys DEL(...names) removes: the client prepends keyPrefix to every
\* name it is given, and the server deletes the names that exist.
Deleted(names) ==
    { k \in CacheKeys :
        \E n \in names :
            ServerKey(config.l2KeyPrefix, k) = ServerKey(config.l2KeyPrefix, n) }

(***************************************************************************)
(* QueryCache.invalidatePattern (it does not call initialize)              *)
(***************************************************************************)
InvalidatePattern(pattern, l2Ok, d) ==
    /\ ~hung
    /\ LET useL2 == l2Redis = "client" /\ config.l2Enabled
           t1    == IF useL2 THEN now + d ELSE now
           gone  == Deleted(KeysReply(pattern, now))
       IN  /\ ~useL2 => (l2Ok /\ d = 0)
           /\ t1 <= Horizon
           /\ now' = t1
           /\ l1Cache' = <<>>
           /\ redisStore' = IF useL2 /\ l2Ok
                            THEN [k \in CacheKeys |->
                                    IF k \in gone THEN NoEntry ELSE redisStore[k]]
                            ELSE redisStore
           /\ ret' = [NoRet EXCEPT !.op = "invalidatePattern",
                         !.pattern = pattern, !.l2err = (useL2 /\ ~l2Ok)]
    /\ UNCHANGED <<l2Redis, initialized, config, hung>>

(***************************************************************************)
(* QueryCache.clear (it does not call initialize)                          *)
(***************************************************************************)
Clear(l2Ok, d) ==
    /\ ~hung
    /\ LET useL2 == l2Redis = "client" /\ config.l2Enabled
           t1    == IF useL2 THEN now + d ELSE now
       IN  /\ ~useL2 => (l2Ok /\ d = 0)
           /\ t1 <= Horizon
           /\ now' = t1
           /\ l1Cache' = <<>>
           /\ redisStore' = IF useL2 /\ l2Ok
                            THEN [k \in CacheKeys |-> NoEntry]
                            ELSE redisStore
           /\ ret' = [NoRet EXCEPT !.op = "clear", !.l2err = (useL2 /\ ~l2Ok)]
    /\ UNCHANGED <<l2Redis, initialized, config, hung>>

(***************************************************************************)
(* QueryCache.evictExpiredL1                                               *)
(***************************************************************************)
EvictExpiredL1 ==
    /\ ~hung
    /\ l1Cache' = SelectSeq(l1Cache, LAMBDA e : ~(e.expires <= now))
    /\ ret' = [NoRet EXCEPT !.op = "evictExpiredL1"]
    /\ UNCHANGED <<l2Redis, initialized, config, redisStore, now, hung>>

(***************************************************************************)
(* Statistics: what each handler adds to the counters.                     *)
(***************************************************************************)
\* Entries the eviction loop of setL1 deletes from c (one evictions++ each).
Evicted(c) == Len(c) - Len(EvictLoop(c))

\* get: hits++ on an L1 hit; misses++ after an L1 miss, then l2 hits++ once
\* setL1 has returned, or l2 misses++ on the way to `return null`.
CountGet(q) ==
    LET outcome == IF hung' THEN "hang" ELSE ret'.tier
        c1      == L1Delete(l1Cache, KeyOf[q])
    IN  /\ l1Stats' =
              [hits      |-> l1Stats.hits + (IF outcome = "l1" THEN 1 ELSE 0),
               misses    |-> l1Stats.misses + (IF outcome = "l1" THEN 0 ELSE 1),
               evictions |-> l1Stats.evictions
                               + (IF outcome = "l2" THEN Evicted(c1) ELSE 0)]
        /\ l2Stats' =
              [hits   |-> l2Stats.hits + (IF outcome = "l2" THEN 1 ELSE 0),
               misses |-> l2Stats.misses + (IF outcome = "miss" THEN 1 ELSE 0)]

\* set: one evictions++ for every entry setL1 deletes.
CountSet ==
    /\ l1Stats' = [l1Stats EXCEPT !.evictions = @ + Evicted(l1Cache)]
    /\ l2Stats' = l2Stats

\* Mutant of resetStats: the counter is left as it is.
ZeroedNot(counter) == counter

\* `this.l1Stats.hits = 0` and the four assignments after it.
Zeroed(counter) == 0

(***************************************************************************)
(* QueryCache.resetStats                                                   *)
(***************************************************************************)
ResetStats ==
    /\ ~hung
    /\ l1Stats' = [hits      |-> Zeroed(l1Stats.hits),
                   misses    |-> Zeroed(l1Stats.misses),
                   evictions |-> Zeroed(l1Stats.evictions)]
    /\ l2Stats' = [hits   |-> Zeroed(l2Stats.hits),
                   misses |-> Zeroed(l2Stats.misses)]
    /\ ret' = [NoRet EXCEPT !.op = "resetStats"]
    /\ UNCHANGED <<l1Cache, l2Redis, initialized, config, redisStore, now, hung>>

\* QueryCache.getStats().combined
getStats ==
    [totalHits   |-> l1Stats.hits + l2Stats.hits,
     totalMisses |-> l1Stats.misses + l2Stats.misses]

NextCache ==
    \/ \E connOk \in BOOLEAN, dp \in Latencies : Initialize(connOk, dp)
          /\ UNCHANGED besidesCache
    \/ \E q \in Queries, connOk \in BOOLEAN, dp \in Latencies,
          l2Ok \in BOOLEAN, d \in Latencies : Get(q, connOk, dp, l2Ok, d)
          /\ UNCHANGED besidesCache
    \/ \E q \in Queries, v \in Values, connOk \in BOOLEAN, dp \in Latencies,
          l2Ok \in BOOLEAN, d \in Latencies : Set(q, v, connOk, dp, l2Ok, d)
          /\ UNCHANGED besidesCache
    \/ \E q \in Queries, l2Ok \in BOOLEAN, d \in Latencies : Invalidate(q, l2Ok, d)
          /\ UNCHANGED besidesCache
    \/ \E quitOk \in BOOLEAN : Close(quitOk)
          /\ UNCHANGED besidesCache
    \/ /\ Tick
      /\ UNCHANGED besidesCache


(***************************************************************************)
(* Set with one construction order, get with the other: the scenario of    *)
(* the key canonicalization property.                                      *)
(***************************************************************************)
BuiltOneWay == { q \in Queries : q[1].name = "query" }
BuiltOtherWay == Queries \ BuiltOneWay

\* Two objects holding the same properties, whatever their order.
SameFields(q1, q2) ==
    { q1[i] : i \in 1..Len(q1) } = { q2[i] : i \in 1..Len(q2) }

NextCanon ==
    \/ \E q \in BuiltOneWay, v \in Values, connOk \in BOOLEAN, dp \in Latencies,
          l2Ok \in BOOLEAN, d \in Latencies : Set(q, v, connOk, dp, l2Ok, d)
          /\ UNCHANGED besidesCache
    \/ \E q \in BuiltOtherWay, connOk \in BOOLEAN, dp \in Latencies,
          l2Ok \in BOOLEAN, d \in Latencies : Get(q, connOk, dp, l2Ok, d)
          /\ UNCHANGED besidesCache
    \/ \E q \in BuiltOneWay, l2Ok \in BOOLEAN, d \in Latencies : Invalidate(q, l2Ok, d)
          /\ UNCHANGED besidesCache
    \/ /\ Tick
      /\ UNCHANGED besidesCache


(***************************************************************************)
(* The cache with its statistics.  Calls that count start only while the   *)
(* counters are below their bounds; resetStats brings them back to 0.      *)
(***************************************************************************)
Countable ==
    /\ l1Stats.hits + l1Stats.misses < MaxLookups
    /\ l1Stats.evictions < MaxEvictions

\* L1 alone, with every capacity from 0 to MaxSize, over three keys.
EvictionConfigs ==
    [ l1MaxSize : 0..MaxSize, l1Ttl : {1000}, l2Enabled : {FALSE}, l2Ttl : {1500},
      l2KeyPrefix : {"saga:"} ]

InitEviction ==
    /\ l1Cache = <<>>
    /\ l2Redis = "null"
    /\ initialized = FALSE
    /\ config \in EvictionConfigs
    /\ redisStore = [k \in CacheKeys |-> NoEntry]
    /\ now = 0
    /\ hung = FALSE
    /\ ret = NoRet
    /\ l1Stats = NoL1Stats
    /\ l2Stats = NoL2Stats
    /\ NoneInflight

NextEviction ==
    \/ \E connOk \in BOOLEAN : Initialize(connOk, 0)
          /\ UNCHANGED besidesCache
    \/ \E q \in EvictionQueries, connOk \in BOOLEAN, l2Ok \in BOOLEAN :
          Countable /\ Get(q, connOk, 0, l2Ok, 0) /\ CountGet(q)
          /\ UNCHANGED besidesStats
    \/ \E q \in EvictionQueries, connOk \in BOOLEAN, l2Ok \in BOOLEAN :
          Countable /\ Set(q, "rows", connOk, 0, l2Ok, 0) /\ CountSet
          /\ UNCHANGED besidesStats
    \/ \E q \in EvictionQueries, l2Ok \in BOOLEAN : Invalidate(q, l2Ok, 0)
          /\ UNCHANGED besidesCache
    \/ \E pattern \in Patterns, l2Ok \in BOOLEAN : InvalidatePattern(pattern, l2Ok, 0)
          /\ UNCHANGED besidesCache
    \/ \E l2Ok \in BOOLEAN : Clear(l2Ok, 0)
          /\ UNCHANGED besidesCache
    \/ /\ EvictExpiredL1
       /\ UNCHANGED besidesCache
    \/ /\ ResetStats
       /\ UNCHANGED besidesStats
    \/ \E quitOk \in BOOLEAN : Close(quitOk)
          /\ UNCHANGED besidesCache
    \/ /\ Tick
       /\ UNCHANGED besidesCache

\* Both tiers, over two keys.
StatsQueries == BuiltOneWay

StatsConfigs ==
    [ l1MaxSize : {0, 1}, l1Ttl : {1000}, l2Enabled : {TRUE}, l2Ttl : {1500},
      l2KeyPrefix : {"saga:"} ]

InitStats ==
    /\ l1Cache = <<>>
    /\ l2Redis = "null"
    /\ initialized = FALSE
    /\ config \in StatsConfigs
    /\ redisStore = [k \in CacheKeys |-> NoEntry]
    /\ now = 0
    /\ hung = FALSE
    /\ ret = NoRet
    /\ l1Stats = NoL1Stats
    /\ l2Stats = NoL2Stats
    /\ NoneInflight

NextStats ==
    \/ \E connOk \in BOOLEAN : Initialize(connOk, 0)
          /\ UNCHANGED besidesCache
    \/ \E q \in StatsQueries, connOk \in BOOLEAN, l2Ok \in BOOLEAN :
          Countable /\ Get(q, connOk, 0, l2Ok, 0) /\ CountGet(q)
          /\ UNCHANGED besidesStats
    \/ \E q \in StatsQueries, connOk \in BOOLEAN, l2Ok \in BOOLEAN :
          Countable /\ Set(q, "rows", connOk, 0, l2Ok, 0) /\ CountSet
          /\ UNCHANGED besidesStats
    \/ \E q \in StatsQueries, l2Ok \in BOOLEAN : Invalidate(q, l2Ok, 0)
          /\ UNCHANGED besidesCache
    \/ \E pattern \in Patterns, l2Ok \in BOOLEAN : InvalidatePattern(pattern, l2Ok, 0)
          /\ UNCHANGED besidesCache
    \/ \E l2Ok \in BOOLEAN : Clear(l2Ok, 0)
          /\ UNCHANGED besidesCache
    \/ /\ EvictExpiredL1
       /\ UNCHANGED besidesCache
    \/ /\ ResetStats
       /\ UNCHANGED besidesStats
    \/ \E quitOk \in BOOLEAN : Close(quitOk)
          /\ UNCHANGED besidesCache
    \/ /\ Tick
       /\ UNCHANGED besidesCache

(***************************************************************************)
(* Calls suspended on Redis.  A call that awaits a reply stops there and   *)
(* other calls run; the one connection carries the commands in the order   *)
(* they were sent, the server runs them in that order and the replies      *)
(* resume the callers in that order.                                       *)
(***************************************************************************)
\* Calls suspended at the same time at most.
MaxPending == 2

InflightConfigs ==
    [ l1MaxSize : {1}, l1Ttl : {1000}, l2Enabled : {TRUE}, l2Ttl : {1500} ]

InitInflight ==
    /\ l1Cache = <<>>
    /\ l2Redis = "null"
    /\ initialized = FALSE
    /\ config \in InflightConfigs
    /\ redisStore = [k \in CacheKeys |-> NoEntry]
    /\ now = 0
    /\ hung = FALSE
    /\ ret = NoRet
    /\ l1Stats = NoL1Stats
    /\ l2Stats = NoL2Stats
    /\ NoneInflight

\* set on an initialized cache: L1 is written before the SETEX is awaited,
\* and nothing follows the reply.  An invalidate still waiting for its reply
\* no longer counts as the last word on the key.
SetInflight(q, v) ==
    /\ initialized
    /\ Set(q, v, TRUE, 0, TRUE, 0)
    /\ invalidated' = invalidated \ {KeyOf[q]}
    /\ pending' = [i \in 1..Len(pending) |->
                     IF pending[i].op = "invalidate" /\ pending[i].query = q
                     THEN [pending[i] EXCEPT !.overwritten = TRUE]
                     ELSE pending[i]]
    /\ UNCHANGED clients

\* get up to its await: an L1 hit returns at once; otherwise the GET is sent
\* and the call waits for the reply, which holds what the server has then.
GetStarts(q) ==
    /\ initialized /\ ~hung
    /\ LET key == KeyOf[q]
           c1  == L1Delete(l1Cache, key)
       IN  IF L1Fresh(l1Cache, key, now)
           THEN /\ ret' = [NoRet EXCEPT !.op = "get", !.query = q,
                              !.data = L1Get(l1Cache, key).data, !.tier = "l1",
                              !.afterInvalidate = (key \in invalidated)]
                /\ UNCHANGED <<l1Cache, pending>>
           ELSE IF l2Redis = "client" /\ config.l2Enabled
           THEN /\ Len(pending) < MaxPending
                /\ l1Cache' = c1
                /\ pending' = Append(pending,
                      [op |-> "get", query |-> q,
                       reply |-> IF RedisHas(key, now) THEN redisStore[key].data
                                 ELSE NoEntry.data,
                       afterInvalidate |-> key \in invalidated,
                       overwritten |-> FALSE])
                /\ ret' = NoRet
           ELSE /\ l1Cache' = c1
                /\ ret' = [NoRet EXCEPT !.op = "get", !.query = q, !.tier = "miss",
                              !.afterInvalidate = (key \in invalidated)]
                /\ UNCHANGED pending
    /\ UNCHANGED <<l2Redis, initialized, config, redisStore, now, hung,
                   invalidated, clients>>

\* invalidate up to its await: the L1 entry is deleted and the DEL is sent.
InvalidateStarts(q) ==
    /\ ~hung
    /\ LET key == KeyOf[q]
       IN  /\ l1Cache' = L1Delete(l1Cache, key)
           /\ IF l2Redis = "client" /\ config.l2Enabled
              THEN /\ Len(pending) < MaxPending
                   /\ redisStore' = [redisStore EXCEPT ![key] = NoEntry]
                   /\ pending' = Append(pending,
                         [op |-> "invalidate", query |-> q, reply |-> NoEntry.data,
                          afterInvalidate |-> FALSE, overwritten |-> FALSE])
                   /\ ret' = NoRet
                   /\ UNCHANGED invalidated
              ELSE /\ invalidated' = invalidated \cup {key}
                   /\ ret' = [NoRet EXCEPT !.op = "invalidate", !.query = q]
                   /\ UNCHANGED <<redisStore, pending>>
    /\ UNCHANGED <<l2Redis, initialized, config, now, hung, clients>>

\* The reply to the oldest command arrives and its caller runs to its end:
\* get stores a non-empty reply in L1 and returns it, invalidate returns.
ReplyArrives ==
    /\ pending # <<>>
    /\ pending[1].op \in {"get", "invalidate"}
    /\ LET call == pending[1]
           key  == KeyOf[call.query]
       IN  IF call.op = "get"
           THEN /\ IF call.reply # NoEntry.data
                   THEN /\ l1Cache' = setL1(l1Cache, key, JsonParse(call.reply), now)
                        /\ ret' = [NoRet EXCEPT !.op = "get", !.query = call.query,
                                      !.data = JsonParse(call.reply), !.tier = "l2",
                                      !.l2read = TRUE,
                                      !.afterInvalidate = call.afterInvalidate]
                   ELSE /\ ret' = [NoRet EXCEPT !.op = "get", !.query = call.query,
                                      !.tier = "miss", !.l2read = TRUE,
                                      !.afterInvalidate = call.afterInvalidate]
                        /\ UNCHANGED l1Cache
                /\ UNCHANGED invalidated
           ELSE /\ invalidated' = IF call.overwritten THEN invalidated
                                  ELSE invalidated \cup {key}
                /\ ret' = [NoRet EXCEPT !.op = "invalidate", !.query = call.query]
                /\ UNCHANGED l1Cache
    /\ pending' = Tail(pending)
    /\ UNCHANGED <<l2Redis, initialized, config, redisStore, now, hung, clients>>

NextInflight ==
    \/ \E connOk \in BOOLEAN : Initialize(connOk, 0)
          /\ UNCHANGED besidesCache
    \/ \E q \in StatsQueries : SetInflight(q, "rows")
          /\ UNCHANGED besidesInflight
    \/ \E q \in StatsQueries : GetStarts(q)
          /\ UNCHANGED besidesInflight
    \/ \E q \in StatsQueries : InvalidateStarts(q)
          /\ UNCHANGED besidesInflight
    \/ /\ ReplyArrives
       /\ UNCHANGED besidesInflight
    \/ /\ Tick
       /\ UNCHANGED besidesCache

(***************************************************************************)
(* initialize() suspended on its ping.  `initialized` is set only after    *)
(* the ping has been answered, so a call that arrives in between passes    *)
(* the `if (this.initialized) return` test as well.                        *)
(***************************************************************************)
MaxClients == 3

ConnectConfigs ==
    [ l1MaxSize : {1}, l1Ttl : {1000}, l2Enabled : BOOLEAN, l2Ttl : {1500} ]

InitConnect ==
    /\ l1Cache = <<>>
    /\ l2Redis = "null"
    /\ initialized = FALSE
    /\ config \in ConnectConfigs
    /\ redisStore = [k \in CacheKeys |-> NoEntry]
    /\ now = 0
    /\ hung = FALSE
    /\ ret = NoRet
    /\ l1Stats = NoL1Stats
    /\ l2Stats = NoL2Stats
    /\ NoneInflight

\* initialize(), called directly or at the top of get and set, up to its
\* await: a client is created, assigned to l2Redis and pinged.
InitializeStarts ==
    /\ ~hung
    /\ ~initialized
    /\ IF config.l2Enabled
       THEN /\ Len(pending) < MaxPending
            /\ clients < MaxClients
            /\ clients' = clients + 1
            /\ l2Redis' = "client"
            /\ pending' = Append(pending,
                  [op |-> "initialize", query |-> <<>>, reply |-> NoEntry.data,
                   afterInvalidate |-> FALSE, overwritten |-> FALSE])
            /\ ret' = NoRet
            /\ UNCHANGED initialized
       ELSE /\ initialized' = TRUE
            /\ ret' = [NoRet EXCEPT !.op = "initialize"]
            /\ UNCHANGED <<l2Redis, pending, clients>>
    /\ UNCHANGED <<l1Cache, config, redisStore, now, hung, invalidated>>

\* The ping of the oldest suspended initialize() is answered.  A failure
\* sets l2Redis to null, whichever client it holds by then, and the client
\* that failed is given up unless close() has ended it already.
PingAnswered(connOk) ==
    /\ pending # <<>>
    /\ pending[1].op = "initialize"
    /\ pending' = Tail(pending)
    /\ initialized' = TRUE
    /\ l2Redis' = IF connOk THEN l2Redis ELSE "null"
    /\ clients' = IF connOk \/ clients = 0 THEN clients ELSE clients - 1
    /\ ret' = [NoRet EXCEPT !.op = "initialize", !.l2err = ~connOk]
    /\ UNCHANGED <<l1Cache, config, redisStore, now, hung, invalidated>>

\* close(): quit() ends the client l2Redis holds, and no other.
CloseConnect(quitOk) ==
    /\ Close(quitOk)
    /\ clients' = IF l2Redis = "client" /\ quitOk THEN clients - 1 ELSE clients
    /\ UNCHANGED <<pending, invalidated>>

NextConnect ==
    \/ /\ InitializeStarts
       /\ UNCHANGED besidesInflight
    \/ \E connOk \in BOOLEAN : PingAnswered(connOk)
          /\ UNCHANGED besidesInflight
    \/ \E q \in StatsQueries : SetInflight(q, "rows")
          /\ UNCHANGED besidesInflight
    \/ \E quitOk \in BOOLEAN : CloseConnect(quitOk)
          /\ UNCHANGED besidesInflight
    \/ /\ Tick
       /\ UNCHANGED besidesCache

(***************************************************************************)
(* Storage adapter: the chunks table of the engine and the calls on it.    *)
(***************************************************************************)
\* Rows in the table at most (a bound of the model).
MaxRows == 3
\* Rows in one addChunks batch at most.
MaxBatch == 2
\* Add calls suspended in createTable at the same time at most.
MaxCalls == 2

DocumentIds == {"d1", "d2"}

\* The chunks the application can hand to addChunks.  The embedding is a
\* direction; the engine's cosine distance of two directions lies in [0, 2].
Chunks ==
    { [id |-> "d1-0", document_id |-> "d1", embedding |-> 0],
      [id |-> "d1-1", document_id |-> "d1", embedding |-> 1],
      [id |-> "d2-0", document_id |-> "d2", embedding |-> 2] }

QueryEmbeddings == {0, 2}
Limits == {1, 2}
\* A filter expression: none, or `document_id = '<d>'`.
Filters == {"none"} \cup DocumentIds

\* A batch may be empty.
Batches == UNION { [1..n -> Chunks] : n \in 0..MaxBatch }

\* The code blocks the application can hand to addCodeBlocks.
Blocks ==
    { [id |-> "b1", document_id |-> "d1", block_index |-> 1, language |-> "js",
       embedding |-> 0],
      [id |-> "b2", document_id |-> "d1", block_index |-> 0, language |-> "py",
       embedding |-> 2] }

BlockBatches == UNION { [1..n -> Blocks] : n \in 0..MaxBatch }

\* The language argument of searchCodeBlocks: none, or a name as typed.
Languages == {"none", "py", " JS "}

\* language.toLowerCase().trim()
Normalize(language) == IF language = " JS " THEN "js" ELSE language

NoTable == [exists |-> FALSE, rows |-> <<>>]

\* Error values, by their message.
NoError == <<>>
EngineError == <<"engine failure">>
SchemaError == <<"At least one record or a schema needs to be provided">>
ExistsError == <<"Table already exists">>
IndexError == <<"index creation failed">>
NotInitialized == <<"LanceDB not initialized">>

\* new Error(`<prefix>: ${error}`)
Wrapped(prefix, error) == <<prefix>> \o error

NoAdRet == [op |-> "none", doc |-> "none", id |-> "none", results |-> <<>>,
            raised |-> FALSE, limit |-> 0, vector |-> 0,
            touched |-> 0, given |-> 0, fault |-> NoError, error |-> NoError,
            index |-> {}]

\* A call that returns.
Returned(op) == [NoAdRet EXCEPT !.op = op]
\* A call that throws `error` after the engine threw `fault` (or nothing).
Raised(op, fault, error) ==
    [NoAdRet EXCEPT !.op = op, !.raised = TRUE, !.fault = fault, !.error = error]

AdapterIdle ==
    /\ creating = <<>>
    /\ adapterInitialized = FALSE
    /\ table = "null"
    /\ chunksTable = NoTable
    /\ chunksIndex = "none"
    /\ codeBlocksTable = "null"
    /\ blocksTable = NoTable
    /\ blocksIndex = "none"
    /\ adRet = NoAdRet

\* The engine's distance between two embeddings.
Distance(a, b) == IF a >= b THEN a - b ELSE b - a

\* Mutant of ScoreHalves: the cosine similarity 1 - distance, not normalized.
ScoreAsSimilarity(distance) == 2 - 2 * distance

\* `row._distance ? (2 - row._distance) / 2 : 1`, in halves.
ScoreHalves(distance) == IF distance # 0 THEN 2 - distance ELSE 2

\* Mutant of DeleteWhereDocument: the predicate matches the row id.
DeleteWhereId(rows, d) == SelectSeq(rows, LAMBDA r : r.id # d)

\* table.delete(`document_id = '<d>'`)
DeleteWhereDocument(rows, d) == SelectSeq(rows, LAMBDA r : r.document_id # d)

Matches(r, filter) == filter = "none" \/ r.document_id = filter

\* Stable insertion of a keyed item into a sequence sorted by key (ties keep
\* their order).
RECURSIVE InsertBy(_, _)
InsertBy(sorted, x) ==
    IF sorted = <<>> THEN <<x>>
    ELSE IF x.key < sorted[1].key THEN <<x>> \o sorted
    ELSE <<sorted[1]>> \o InsertBy(Tail(sorted), x)

\* A sequence of [item, key] records in ascending order of key.
RECURSIVE SortBy(_)
SortBy(seq) ==
    IF seq = <<>> THEN <<>>
    ELSE InsertBy(SortBy(SubSeq(seq, 1, Len(seq) - 1)), seq[Len(seq)])

Take(seq, n) == SubSeq(seq, 1, IF n < Len(seq) THEN n ELSE Len(seq))

\* table.search(v).limit(n).where(filter).toArray(): the matching rows nearest
\* to v, nearest first, each with its _distance.
EngineSearch(rows, v, limit, filter) ==
    LET matching == SelectSeq(rows, LAMBDA r : Matches(r, filter))
        withDist == [i \in 1..Len(matching) |->
                        [item |-> [row |-> matching[i],
                                   distance |-> Distance(matching[i].embedding, v)],
                         key |-> Distance(matching[i].embedding, v)]]
        sorted   == Take(SortBy(withDist), limit)
    IN  [i \in 1..Len(sorted) |-> sorted[i].item]

\* The result mapping of search: a score per row, highest score first.
SearchResults(found) ==
    LET scored == [i \in 1..Len(found) |->
                     [item |-> [chunk |-> found[i].row,
                                score |-> ScoreHalves(found[i].distance)],
                      key |-> 0 - ScoreHalves(found[i].distance)]]
        sorted == SortBy(scored)
    IN  [i \in 1..Len(sorted) |-> sorted[i].item]

IndexOutcomes == {"built", "failed", "timeout"}

\* The index after a createIndex raced against the 30 s timer.
IndexAfter(index, outcome) ==
    IF outcome = "built" THEN "ready"
    ELSE IF outcome = "timeout" /\ index # "ready" THEN "building"
    ELSE index

\* Mutant of Swallowed: only a timeout of the index creation is swallowed.
SwallowedTimeoutOnly(outcome) == outcome # "failed"

\* The catch around the index creation logs a timeout and a failure alike.
Swallowed(outcome) == TRUE

\* What the engine throws when a table is created from the batch.
CreateFault(store, batch, writeOk) ==
    IF ~writeOk THEN EngineError
    ELSE IF batch = <<>> THEN SchemaError
    ELSE IF store.exists THEN ExistsError
    ELSE NoError

\* The body shared by addChunks and addCodeBlocks, on the handle, the engine
\* table and the index of one of the two tables: what they become, and what
\* the call returns.
AddRows(op, prefix, handle, store, index, batch, writeOk, idx) ==
    LET same  == [handle |-> handle, store |-> store, index |-> index]
        given == Len(batch)
    IN  IF ~adapterInitialized
        THEN same @@ [ret |-> [Raised(op, NoError, NotInitialized)
                                  EXCEPT !.given = given]]
        ELSE IF handle = "null"
        THEN LET fault == CreateFault(store, batch, writeOk)
             IN  IF fault # NoError
                 THEN same @@ [ret |-> [Raised(op, fault, Wrapped(prefix, fault))
                                           EXCEPT !.given = given]]
                 ELSE [handle |-> "open",
                       store |-> [exists |-> TRUE, rows |-> batch],
                       index |-> IndexAfter(index, idx),
                       ret |-> IF Swallowed(idx) \/ idx = "built"
                               THEN [Returned(op) EXCEPT !.given = given,
                                        !.touched = given, !.index = {idx}]
                               ELSE [Raised(op, IndexError,
                                            Wrapped(prefix, IndexError))
                                        EXCEPT !.given = given,
                                        !.touched = given, !.index = {idx}]]
        ELSE IF writeOk
        THEN [handle |-> handle,
              store |-> [store EXCEPT !.rows = @ \o batch],
              index |-> index,
              ret |-> [Returned(op) EXCEPT !.given = given, !.touched = given]]
        ELSE same @@ [ret |-> [Raised(op, EngineError, Wrapped(prefix, EngineError))
                                  EXCEPT !.given = given]]

\* Mutant of OnMissingTable: a table that does not exist yet is an error.
RaisesOnMissingTable(op) == Raised(op, NoError, <<"table not found">>)

\* The early return of a call whose table handle is null: an empty list,
\* null, or nothing.
OnMissingTable(op) == Returned(op)

\* A table that holds rows gets its index creation attempted at initialize.
HasRows(store) == store.exists /\ Len(store.rows) > 0

(***************************************************************************)
(* LanceDBAdapter.initialize: both tables are opened if they exist; on a   *)
(* table that holds rows the indexes are attempted, failures swallowed.    *)
(***************************************************************************)
AdInitialize(connOk, idx, blocksIdx) ==
    /\ ~adapterInitialized
    /\ (~connOk \/ ~HasRows(chunksTable)) => idx = "failed"
    /\ (~connOk \/ ~HasRows(blocksTable)) => blocksIdx = "failed"
    /\ IF ~connOk
       THEN /\ adRet' = Raised("initialize", EngineError,
                               Wrapped("LanceDB initialization failed", EngineError))
            /\ UNCHANGED <<adapterInitialized, table, chunksIndex,
                           codeBlocksTable, blocksIndex>>
       ELSE /\ adapterInitialized' = TRUE
            /\ table' = IF chunksTable.exists THEN "open" ELSE "null"
            /\ chunksIndex' = IF HasRows(chunksTable)
                              THEN IndexAfter(chunksIndex, idx) ELSE chunksIndex
            /\ codeBlocksTable' = IF blocksTable.exists THEN "open" ELSE "null"
            /\ blocksIndex' = IF HasRows(blocksTable)
                              THEN IndexAfter(blocksIndex, blocksIdx) ELSE blocksIndex
            /\ adRet' = [Returned("initialize") EXCEPT !.index =
                            (IF HasRows(chunksTable) THEN {idx} ELSE {})
                              \cup (IF HasRows(blocksTable) THEN {blocksIdx} ELSE {})]
    /\ UNCHANGED <<chunksTable, blocksTable>>

(***************************************************************************)
(* LanceDBAdapter.addChunks                                                *)
(***************************************************************************)
AddChunks(batch, writeOk, idx) ==
    /\ Len(chunksTable.rows) + Len(batch) <= MaxRows
    /\ (adapterInitialized /\ table = "null" /\ writeOk /\ batch # <<>>)
          \/ idx = "failed"
    /\ LET after == AddRows("addChunks", "Failed to add chunks", table,
                            chunksTable, chunksIndex, batch, writeOk, idx)
       IN  /\ table' = after.handle
           /\ chunksTable' = after.store
           /\ chunksIndex' = after.index
           /\ adRet' = after.ret
    /\ UNCHANGED <<adapterInitialized, codeBlocksTable, blocksTable, blocksIndex>>

(***************************************************************************)
(* LanceDBAdapter.addCodeBlocks                                            *)
(***************************************************************************)
AddCodeBlocks(batch, writeOk, idx) ==
    /\ Len(blocksTable.rows) + Len(batch) <= MaxRows
    /\ (adapterInitialized /\ codeBlocksTable = "null" /\ writeOk /\ batch # <<>>)
          \/ idx = "failed"
    /\ LET after == AddRows("addCodeBlocks", "Failed to add code blocks",
                            codeBlocksTable, blocksTable, blocksIndex, batch,
                            writeOk, idx)
       IN  /\ codeBlocksTable' = after.handle
           /\ blocksTable' = after.store
           /\ blocksIndex' = after.index
           /\ adRet' = after.ret
    /\ UNCHANGED <<adapterInitialized, table, chunksTable, chunksIndex>>

(***************************************************************************)
(* LanceDBAdapter.removeChunks                                             *)
(***************************************************************************)
RemoveChunks(d, deleteOk) ==
    /\ (~adapterInitialized \/ table = "null") => deleteOk
    /\ IF ~adapterInitialized
       THEN /\ adRet' = [Raised("removeChunks", NoError, NotInitialized)
                            EXCEPT !.doc = d]
            /\ UNCHANGED chunksTable
       ELSE IF table = "null"
       THEN /\ adRet' = [OnMissingTable("removeChunks") EXCEPT !.doc = d]
            /\ UNCHANGED chunksTable
       ELSE IF deleteOk
       THEN /\ chunksTable' =
                [chunksTable EXCEPT !.rows = DeleteWhereDocument(@, d)]
            /\ adRet' = [Returned("removeChunks") EXCEPT !.doc = d,
                            !.touched = Len(chunksTable.rows)
                                - Len(DeleteWhereDocument(chunksTable.rows, d))]
       ELSE /\ adRet' = [Raised("removeChunks", EngineError,
                                Wrapped("Failed to remove chunks", EngineError))
                            EXCEPT !.doc = d]
            /\ UNCHANGED chunksTable
    /\ UNCHANGED <<adapterInitialized, table, chunksIndex, codeBlocksTable,
                   blocksTable, blocksIndex>>

(***************************************************************************)
(* LanceDBAdapter.search                                                   *)
(***************************************************************************)
Search(v, limit, filter, searchOk) ==
    /\ (~adapterInitialized \/ table = "null") => searchOk
    /\ IF ~adapterInitialized
       THEN adRet' = Raised("search", NoError, NotInitialized)
       ELSE IF table = "null"
       THEN adRet' = OnMissingTable("search")
       ELSE IF searchOk
       THEN adRet' = [Returned("search") EXCEPT
                         !.limit = limit, !.vector = v,
                         !.results = SearchResults(
                             EngineSearch(chunksTable.rows, v, limit, filter)),
                         !.touched = Len(EngineSearch(chunksTable.rows, v,
                                                      limit, filter))]
       ELSE adRet' = Raised("search", EngineError,
                            Wrapped("Failed to search", EngineError))
    /\ UNCHANGED <<adapterInitialized, table, chunksTable, chunksIndex,
                   codeBlocksTable, blocksTable, blocksIndex>>

(***************************************************************************)
(* LanceDBAdapter.getChunk: the chunk, or null (no results); an engine     *)
(* failure is logged and null returned.                                    *)
(***************************************************************************)
\* Mutant of ChunkOrNull: an empty result is reported by throwing.
ChunkOrThrow(results) ==
    IF results = <<>> THEN Raised("getChunk", NoError, <<"Chunk not found">>)
    ELSE [Returned("getChunk") EXCEPT !.results = results]

\* `if (results.length === 0) return null;` and the mapping of results[0].
ChunkOrNull(results) == [Returned("getChunk") EXCEPT !.results = results]

GetChunk(chunkId, queryOk) ==
    /\ (~adapterInitialized \/ table = "null") => queryOk
    /\ LET outcome ==
             IF ~adapterInitialized
             THEN Raised("getChunk", NoError, NotInitialized)
             ELSE IF table = "null"
             THEN OnMissingTable("getChunk")
             ELSE IF queryOk
             THEN ChunkOrNull(Take(SelectSeq(chunksTable.rows,
                                             LAMBDA r : r.id = chunkId), 1))
             ELSE [Returned("getChunk") EXCEPT !.fault = EngineError]
       IN  adRet' = [outcome EXCEPT !.id = chunkId]
    /\ UNCHANGED <<adapterInitialized, table, chunksTable, chunksIndex,
                   codeBlocksTable, blocksTable, blocksIndex>>

\* `language = '<normalized>'`
MatchesLanguage(r, language) ==
    language = "none" \/ r.language = Normalize(language)

\* codeBlocksTable.search(v).limit(n).where(...).toArray() and its mapping.
BlockSearchResults(rows, v, limit, language) ==
    LET matching == SelectSeq(rows, LAMBDA r : MatchesLanguage(r, language))
        nearest  == EngineSearch(matching, v, limit, "none")
        results  == SearchResults(nearest)
    IN  [i \in 1..Len(results) |->
            [code_block |-> results[i].chunk, score |-> results[i].score]]

(***************************************************************************)
(* LanceDBAdapter.searchCodeBlocks                                         *)
(***************************************************************************)
SearchCodeBlocks(v, limit, language, searchOk) ==
    /\ (~adapterInitialized \/ codeBlocksTable = "null") => searchOk
    /\ IF ~adapterInitialized
       THEN adRet' = Raised("searchCodeBlocks", NoError, NotInitialized)
       ELSE IF codeBlocksTable = "null"
       THEN adRet' = OnMissingTable("searchCodeBlocks")
       ELSE IF searchOk
       THEN adRet' = [Returned("searchCodeBlocks") EXCEPT
                         !.limit = limit, !.vector = v,
                         !.results = BlockSearchResults(blocksTable.rows, v,
                                                        limit, language)]
       ELSE adRet' = Raised("searchCodeBlocks", EngineError,
                            Wrapped("Failed to search code blocks", EngineError))
    /\ UNCHANGED <<adapterInitialized, table, chunksTable, chunksIndex,
                   codeBlocksTable, blocksTable, blocksIndex>>

\* The code blocks of a document in ascending block_index.
BlocksOfDocument(rows, d) ==
    LET own   == SelectSeq(rows, LAMBDA r : r.document_id = d)
        keyed == [i \in 1..Len(own) |-> [item |-> own[i], key |-> own[i].block_index]]
        sorted == SortBy(keyed)
    IN  [i \in 1..Len(sorted) |-> sorted[i].item]

(***************************************************************************)
(* LanceDBAdapter.getCodeBlocksByDocument: an engine failure is logged and *)
(* an empty list returned.                                                 *)
(***************************************************************************)
GetCodeBlocksByDocument(d, queryOk) ==
    /\ (~adapterInitialized \/ codeBlocksTable = "null") => queryOk
    /\ IF ~adapterInitialized
       THEN adRet' = [Raised("getCodeBlocksByDocument", NoError, NotInitialized)
                         EXCEPT !.doc = d]
       ELSE IF codeBlocksTable = "null"
       THEN adRet' = [OnMissingTable("getCodeBlocksByDocument") EXCEPT !.doc = d]
       ELSE IF queryOk
       THEN adRet' = [Returned("getCodeBlocksByDocument") EXCEPT !.doc = d,
                         !.results = BlocksOfDocument(blocksTable.rows, d)]
       ELSE adRet' = [Returned("getCodeBlocksByDocument") EXCEPT !.doc = d,
                         !.fault = EngineError]
    /\ UNCHANGED <<adapterInitialized, table, chunksTable, chunksIndex,
                   codeBlocksTable, blocksTable, blocksIndex>>

\* Mutant of AdClose: the flag is left as it is.
AdCloseKeepsFlag ==
    /\ adapterInitialized' = adapterInitialized
    /\ adRet' = Returned("close")
    /\ UNCHANGED <<table, chunksTable, chunksIndex, codeBlocksTable,
                   blocksTable, blocksIndex>>

(***************************************************************************)
(* LanceDBAdapter.close: the handles stay, only `initialized` is reset.    *)
(***************************************************************************)
AdClose ==
    /\ adapterInitialized' = FALSE
    /\ adRet' = Returned("close")
    /\ UNCHANGED <<table, chunksTable, chunksIndex, codeBlocksTable,
                   blocksTable, blocksIndex>>

\* An index build abandoned at its deadline goes on inside the engine and
\* ends there, with or without an index.
IndexBuildEnds(built) ==
    /\ \/ /\ chunksIndex = "building"
          /\ chunksIndex' = IF built THEN "ready" ELSE "none"
          /\ UNCHANGED blocksIndex
       \/ /\ blocksIndex = "building"
          /\ blocksIndex' = IF built THEN "ready" ELSE "none"
          /\ UNCHANGED chunksIndex
    /\ UNCHANGED <<adapterInitialized, table, chunksTable, codeBlocksTable,
                   blocksTable, adRet>>

ChunkIds == { c.id : c \in Chunks }

\* The calls on the chunks table.
NextAdapter ==
    \/ \E connOk \in BOOLEAN, idx \in IndexOutcomes, blocksIdx \in IndexOutcomes :
          AdInitialize(connOk, idx, blocksIdx)
          /\ UNCHANGED besidesAdapter
    \/ \E batch \in Batches, writeOk \in BOOLEAN, idx \in IndexOutcomes :
          AddChunks(batch, writeOk, idx)
          /\ UNCHANGED besidesAdapter
    \/ \E d \in DocumentIds, deleteOk \in BOOLEAN : RemoveChunks(d, deleteOk)
          /\ UNCHANGED besidesAdapter
    \/ \E v \in QueryEmbeddings, limit \in Limits, filter \in Filters,
          searchOk \in BOOLEAN : Search(v, limit, filter, searchOk)
          /\ UNCHANGED besidesAdapter
    \/ \E chunkId \in ChunkIds, queryOk \in BOOLEAN : GetChunk(chunkId, queryOk)
          /\ UNCHANGED besidesAdapter
    \/ /\ AdClose
       /\ UNCHANGED besidesAdapter
    \/ \E built \in BOOLEAN : IndexBuildEnds(built)
          /\ UNCHANGED besidesAdapter

\* Every call of the adapter, on both tables, with one row to add and one
\* search to make.
LifecycleBatches ==
    { batch \in Batches \cup BlockBatches :
         Len(batch) <= 1 /\ \A i \in 1..Len(batch) : batch[i].id \in {"d1-0", "b1"} }

NextLifecycle ==
    \/ \E connOk \in BOOLEAN, idx \in IndexOutcomes, blocksIdx \in IndexOutcomes :
          AdInitialize(connOk, idx, blocksIdx)
          /\ UNCHANGED besidesAdapter
    \/ \E batch \in LifecycleBatches \cap Batches, writeOk \in BOOLEAN,
          idx \in IndexOutcomes : AddChunks(batch, writeOk, idx)
          /\ UNCHANGED besidesAdapter
    \/ \E batch \in LifecycleBatches \cap BlockBatches, writeOk \in BOOLEAN,
          idx \in IndexOutcomes : AddCodeBlocks(batch, writeOk, idx)
          /\ UNCHANGED besidesAdapter
    \/ \E d \in DocumentIds, deleteOk \in BOOLEAN : RemoveChunks(d, deleteOk)
          /\ UNCHANGED besidesAdapter
    \/ \E searchOk \in BOOLEAN : Search(0, 1, "none", searchOk)
          /\ UNCHANGED besidesAdapter
    \/ \E searchOk \in BOOLEAN : SearchCodeBlocks(0, 1, "none", searchOk)
          /\ UNCHANGED besidesAdapter
    \/ \E queryOk \in BOOLEAN : GetChunk("d1-0", queryOk)
          /\ UNCHANGED besidesAdapter
    \/ \E queryOk \in BOOLEAN : GetCodeBlocksByDocument("d1", queryOk)
          /\ UNCHANGED besidesAdapter
    \/ /\ AdClose
       /\ UNCHANGED besidesAdapter
    \/ \E built \in BOOLEAN : IndexBuildEnds(built)
          /\ UNCHANGED besidesAdapter

(***************************************************************************)
(* Concurrent add calls.  addChunks and addCodeBlocks test their table     *)
(* handle and, finding it null, await db.createTable(name, rows); other    *)
(* calls run while that promise is pending.                                *)
(***************************************************************************)
\* A call passes the initialized guard, finds the handle null and suspends.
AddSuspends(op, batch) ==
    /\ adapterInitialized
    /\ Len(creating) < MaxCalls
    /\ \/ op = "addChunks" /\ table = "null" /\ batch \in Batches
       \/ op = "addCodeBlocks" /\ codeBlocksTable = "null" /\ batch \in BlockBatches
    /\ creating' = Append(creating, [op |-> op, batch |-> batch])
    /\ UNCHANGED <<adapterInitialized, table, chunksTable, chunksIndex,
                   codeBlocksTable, blocksTable, blocksIndex, adRet>>

\* The createTable of the i-th suspended call settles and the call runs to
\* its end: the handle is assigned and the index attempted, or the catch
\* rethrows.
CreateTableSettles(i, writeOk, idx) ==
    /\ i \in 1..Len(creating)
    /\ adapterInitialized
    /\ LET call   == creating[i]
           chunks == call.op = "addChunks"
           store  == IF chunks THEN chunksTable ELSE blocksTable
           after  == AddRows(call.op,
                             IF chunks THEN "Failed to add chunks"
                             ELSE "Failed to add code blocks",
                             "null", store,
                             IF chunks THEN chunksIndex ELSE blocksIndex,
                             call.batch, writeOk, idx)
       IN  /\ (writeOk /\ call.batch # <<>> /\ ~store.exists) \/ idx = "failed"
           /\ adRet' = after.ret
           /\ IF chunks
              THEN /\ table' = IF after.ret.raised THEN table ELSE after.handle
                   /\ chunksTable' = after.store
                   /\ chunksIndex' = after.index
                   /\ UNCHANGED <<codeBlocksTable, blocksTable, blocksIndex>>
              ELSE /\ codeBlocksTable' = IF after.ret.raised THEN codeBlocksTable
                                         ELSE after.handle
                   /\ blocksTable' = after.store
                   /\ blocksIndex' = after.index
                   /\ UNCHANGED <<table, chunksTable, chunksIndex>>
           /\ creating' = SubSeq(creating, 1, i - 1)
                            \o SubSeq(creating, i + 1, Len(creating))
    /\ UNCHANGED adapterInitialized

\* The batches of the racing calls: one row each.
RaceBatches == { batch \in Batches \cup BlockBatches : Len(batch) = 1 }

NextRace ==
    \/ \E connOk \in BOOLEAN, idx \in IndexOutcomes, blocksIdx \in IndexOutcomes :
          AdInitialize(connOk, idx, blocksIdx)
          /\ UNCHANGED besidesAdapter
    \/ \E op \in {"addChunks", "addCodeBlocks"}, batch \in RaceBatches :
          AddSuspends(op, batch)
          /\ UNCHANGED besidesRace
    \/ \E i \in 1..MaxCalls, writeOk \in BOOLEAN, idx \in IndexOutcomes :
          CreateTableSettles(i, writeOk, idx)
          /\ UNCHANGED besidesRace
    \/ \E chunkId \in ChunkIds, queryOk \in BOOLEAN : GetChunk(chunkId, queryOk)
          /\ UNCHANGED besidesAdapter

\* The calls on the code_blocks table, and those on a chunks table that was
\* never created.
NextCodeBlocks ==
    \/ \E connOk \in BOOLEAN, idx \in IndexOutcomes, blocksIdx \in IndexOutcomes :
          AdInitialize(connOk, idx, blocksIdx)
          /\ UNCHANGED besidesAdapter
    \/ \E batch \in BlockBatches, writeOk \in BOOLEAN, idx \in IndexOutcomes :
          AddCodeBlocks(batch, writeOk, idx)
          /\ UNCHANGED besidesAdapter
    \/ \E v \in QueryEmbeddings, limit \in Limits, language \in Languages,
          searchOk \in BOOLEAN : SearchCodeBlocks(v, limit, language, searchOk)
          /\ UNCHANGED besidesAdapter
    \/ \E d \in DocumentIds, queryOk \in BOOLEAN : GetCodeBlocksByDocument(d, queryOk)
          /\ UNCHANGED besidesAdapter
    \/ \E d \in DocumentIds, deleteOk \in BOOLEAN : RemoveChunks(d, deleteOk)
          /\ UNCHANGED besidesAdapter
    \/ \E v \in QueryEmbeddings, limit \in Limits, filter \in Filters,
          searchOk \in BOOLEAN : Search(v, limit, filter, searchOk)
          /\ UNCHANGED besidesAdapter
    \/ \E chunkId \in ChunkIds, queryOk \in BOOLEAN : GetChunk(chunkId, queryOk)
          /\ UNCHANGED besidesAdapter
    \/ /\ AdClose
       /\ UNCHANGED besidesAdapter
    \/ \E built \in BOOLEAN : IndexBuildEnds(built)
          /\ UNCHANGED besidesAdapter

(***************************************************************************)
(* Migration to the v1 schema: the databases on disk and migrateToV1.      *)
(***************************************************************************)
\* Chunk rows in the source at most.
MaxChunks == 2
\* Code-block rows in the source at most.
MaxBlocks == 1

\* `options.batchSize || 1000`
DefaultBatchSize == 1000
\* withRetry's default maxRetries; no write of the migration goes through it.
maxRetries == 5

Paths == {"db", "db.backup"}

\* The v1 tables, in the order dropV1Tables and createV1Schema go through them.
V1Tables == <<"documents", "document_tags", "document_languages", "chunks",
              "code_blocks", "keywords", "schema_version">>
TableNames == { V1Tables[i] : i \in 1..Len(V1Tables) }

\* The value of document_id in a table that has no such column.
NoColumn == "no column"
HasDocumentId(t) == t \notin {"documents", "schema_version"}

Row(i, d) == [id |-> i, document_id |-> d]

Absent == [exists |-> FALSE, rows |-> <<>>]
Holding(rows) == [exists |-> TRUE, rows |-> rows]

NoDirectory == [t \in TableNames |-> Absent]

\* The rows of a database written by the application before the migration.
OldChunks == <<Row("c1", "d1"), Row("c2", "d2"), Row("c3", "d2")>>
OldBlocks == <<Row("b1", "d1"), Row("b2", "d2")>>

\* A database of the old layout: a chunks table, with or without code_blocks.
OldDatabase(n, blocks) ==
    [t \in TableNames |->
        IF t = "chunks" THEN Holding(SubSeq(OldChunks, 1, n))
        ELSE IF t = "code_blocks" /\ blocks >= 0
             THEN Holding(SubSeq(OldBlocks, 1, blocks))
        ELSE Absent]

BatchSizes == {0, 1, 2}

Options == [batchSize : BatchSizes, dryRun : BOOLEAN, createIndexes : BOOLEAN,
            validateAfterMigration : BOOLEAN]

DefaultOptions == [batchSize |-> 0, dryRun |-> FALSE, createIndexes |-> TRUE,
                   validateAfterMigration |-> TRUE]

NoResult == [success |-> FALSE, documentsMigrated |-> 0, chunksMigrated |-> 0,
             codeBlocksMigrated |-> 0, tagsMigrated |-> 0, languagesMigrated |-> 0,
             keywordsCreated |-> 0, errors |-> <<>>]

NoWrite == [attempts |-> 0, outcome |-> "none"]

\* The listing of the parent directory of the databases of d.
ListingOf(d) ==
    IF d["db.backup"] # NoDirectory THEN <<"db", "db.backup.100">> ELSE <<"db">>

MigrationIdle ==
    /\ files = <<>>
    /\ dbs = [p \in Paths |-> NoDirectory]
    /\ dbs0 = dbs
    /\ options = DefaultOptions
    /\ migPc = "idle"
    /\ oldDbPath = "db"
    /\ result = NoResult
    /\ allRows = <<>>
    /\ cursor = 0
    /\ lastWrite = NoWrite
    /\ rounds = 0

\* migrateToV1(dbPath, options) is called on a database of the old layout that
\* has a backup snapshot next to it, or none.
InitMigration ==
    /\ \E n \in 0..MaxChunks, blocks \in -1..MaxBlocks, hasBackup \in BOOLEAN :
          dbs = [p \in Paths |->
                    IF p = "db" \/ hasBackup THEN OldDatabase(n, blocks)
                    ELSE NoDirectory]
    /\ dbs0 = dbs
    /\ files = ListingOf(dbs)
    /\ options \in Options
    /\ migPc = "start"
    /\ oldDbPath = "db"
    /\ result = NoResult
    /\ allRows = <<>>
    /\ cursor = 0
    /\ lastWrite = NoWrite
    /\ rounds = 0

\* `options.batchSize || 1000`
batchSize == IF options.batchSize = 0 THEN DefaultBatchSize ELSE options.batchSize

\* Mutant of dryRun: the option is not looked at.
dryRunIgnored == FALSE

\* `options.dryRun ?? false`
dryRun == options.dryRun

\* The most recent `<db>.backup.<timestamp>` directory if there is one, else
\* the database itself.
LocateSource ==
    IF dbs["db.backup"] # NoDirectory THEN "db.backup" ELSE "db"

\* The rows of table t of the directory at path p.
RowsAt(p, t) == dbs[p][t].rows

\* allRows.slice(i, i + batchSize)
Slice(rows, i, size) ==
    SubSeq(rows, i + 1, IF i + size < Len(rows) THEN i + size ELSE Len(rows))

\* The message of the error a failed write raises.
ErrorOf(outcome) == IF outcome = "conflict" THEN "commit conflict" ELSE "write failed"

WriteOutcomes == {"ok", "conflict", "error"}

\* The catch of migrateToV1: the message is recorded and the result returned.
Fail(message) ==
    /\ result' = [result EXCEPT !.errors = Append(@, message)]
    /\ migPc' = "returned"

\* table.add(rows) on the new database: one attempt.
Added(t, rows) == [dbs EXCEPT !["db"][t].rows = @ \o rows]

\* The sample record createV1Schema creates table t with.
SampleRecord(t) ==
    IF t = "schema_version" THEN Row("0", NoColumn)
    ELSE IF HasDocumentId(t) THEN Row("sample", "")
    ELSE Row("sample", NoColumn)

\* dropV1Tables(db): every v1 table that exists is dropped.
dropV1Tables(db) == [t \in TableNames |-> Absent]

\* createV1Schema(db), the first k tables of it: a table that does not exist
\* is created holding its sample record, one that exists is left as it is.
createV1Schema(db, k) ==
    [t \in TableNames |->
        IF (\E i \in 1..k : V1Tables[i] = t) /\ ~db[t].exists
        THEN Holding(<<SampleRecord(t)>>)
        ELSE db[t]]

\* What cleanupSampleRecords deletes from table t: in the six tables it goes
\* through, the records `document_id = ''` finds, each deleted by its id (the
\* query fails on a table without that column and the table is skipped); in
\* schema_version the records with id 0.
IsSample(t, rows, r) ==
    IF t = "schema_version" THEN r.id = "0"
    ELSE /\ HasDocumentId(t)
         /\ \E i \in 1..Len(rows) : rows[i].document_id = "" /\ rows[i].id = r.id

\* cleanupSampleRecords(db)
cleanupSampleRecords(db) ==
    [t \in TableNames |->
        IF db[t].exists
        THEN Holding(SelectSeq(db[t].rows, LAMBDA r : ~IsSample(t, db[t].rows, r)))
        ELSE db[t]]

\* The document ids of the chunks, each once, in order of first appearance.
RECURSIVE DocumentsOf(_)
DocumentsOf(chunks) ==
    IF chunks = <<>> THEN <<>>
    ELSE LET before == DocumentsOf(SubSeq(chunks, 1, Len(chunks) - 1))
             d      == chunks[Len(chunks)].document_id
         IN  IF \E i \in 1..Len(before) : before[i].id = d
             THEN before ELSE Append(before, Row(d, NoColumn))

\* The keyword rows of the documents: a document titled `Document <id>` gives
\* one title keyword, the sample record with its empty title gives none.
KeywordsOf(documents) ==
    LET real == SelectSeq(documents, LAMBDA r : r.id # "sample")
    IN  [i \in 1..Len(real) |-> Row(real[i].id, real[i].id)]

\* validateMigration(oldDb, newDb); an exception makes it return false, but a
\* code_blocks table that cannot be opened only skips that comparison.
validateMigration(oldDb, newDb) ==
    IF ~oldDb["chunks"].exists \/ ~newDb["chunks"].exists THEN FALSE
    ELSE IF Len(oldDb["chunks"].rows) # Len(newDb["chunks"].rows) THEN FALSE
    ELSE IF /\ oldDb["code_blocks"].exists /\ newDb["code_blocks"].exists
            /\ Len(oldDb["code_blocks"].rows) # Len(newDb["code_blocks"].rows)
         THEN FALSE
    ELSE IF ~newDb["documents"].exists THEN FALSE
    ELSE IF Len(newDb["documents"].rows) = 0 THEN FALSE
    ELSE newDb["schema_version"].exists

\* MIN_VECTORS_FOR_IVF_PQ
MinVectorsForIvfPq == 256

(***************************************************************************)
(* migrateToV1, one action per stretch of it that ends with a write to the *)
(* new database or with its return.                                        *)
(***************************************************************************)
\* The source is located and both databases are connected; a dry run returns.
Locate ==
    /\ migPc = "start"
    /\ oldDbPath' = LocateSource
    /\ IF dryRun
       THEN /\ result' = [result EXCEPT !.success = TRUE]
            /\ migPc' = "returned"
       ELSE /\ migPc' = "drop"
            /\ UNCHANGED result
    /\ UNCHANGED <<dbs, dbs0, options, allRows, cursor, lastWrite, rounds>>

DropV1Tables ==
    /\ migPc = "drop"
    /\ dbs' = [dbs EXCEPT !["db"] = dropV1Tables(@)]
    /\ migPc' = "create"
    /\ UNCHANGED <<dbs0, options, oldDbPath, result, allRows, cursor, lastWrite, rounds>>

\* k tables are gone through before a createTable fails for another reason
\* than "already exists"; with k = 7 none fails.
CreateV1Schema(k) ==
    /\ migPc = "create"
    /\ dbs' = [dbs EXCEPT !["db"] = createV1Schema(@, k)]
    /\ IF k < Len(V1Tables)
       THEN Fail("create failed")
       ELSE migPc' = "cleanup" /\ UNCHANGED result
    /\ UNCHANGED <<dbs0, options, oldDbPath, allRows, cursor, lastWrite, rounds>>

\* cleanupSampleRecords, then migrateDocuments up to its first batch.
CleanupSampleRecords ==
    /\ migPc = "cleanup"
    /\ dbs' = [dbs EXCEPT !["db"] = cleanupSampleRecords(@)]
    /\ rounds' = rounds + 1
    /\ allRows' = DocumentsOf(dbs'[oldDbPath]["chunks"].rows)
    /\ cursor' = 0
    /\ migPc' = "documents"
    /\ UNCHANGED <<dbs0, options, oldDbPath, result, lastWrite>>

\* One batch of a phase is added to table t of the new database.
AddBatch(t, outcome) ==
    /\ cursor < Len(allRows)
    /\ lastWrite' = [attempts |-> 1, outcome |-> outcome]
    /\ IF outcome = "ok"
       THEN /\ dbs' = Added(t, Slice(allRows, cursor, batchSize))
            /\ cursor' = cursor + batchSize
            /\ UNCHANGED <<migPc, result>>
       ELSE /\ Fail(ErrorOf(outcome))
            /\ UNCHANGED <<dbs, cursor>>
    /\ UNCHANGED <<dbs0, options, oldDbPath, allRows, rounds>>

MigrateDocumentsBatch(outcome) ==
    /\ migPc = "documents"
    /\ AddBatch("documents", outcome)

\* migrateDocuments returns; migrateChunks reads the old chunks.
MigrateDocumentsDone ==
    /\ migPc = "documents" /\ cursor >= Len(allRows)
    /\ result' = [result EXCEPT !.documentsMigrated = Len(allRows)]
    /\ allRows' = RowsAt(oldDbPath, "chunks")
    /\ cursor' = 0
    /\ migPc' = "chunks"
    /\ UNCHANGED <<dbs, dbs0, options, oldDbPath, lastWrite, rounds>>

MigrateChunksBatch(outcome) ==
    /\ migPc = "chunks"
    /\ AddBatch("chunks", outcome)

\* migrateChunks returns; migrateCodeBlocks opens the old code_blocks table,
\* which throws when the source has none.
MigrateChunksDone ==
    /\ migPc = "chunks" /\ cursor >= Len(allRows)
    /\ IF dbs[oldDbPath]["code_blocks"].exists
       THEN /\ result' = [result EXCEPT !.chunksMigrated = Len(allRows)]
            /\ allRows' = RowsAt(oldDbPath, "code_blocks")
            /\ migPc' = "code_blocks"
       ELSE /\ result' = [result EXCEPT !.chunksMigrated = Len(allRows),
                                        !.errors = Append(@, "table not found")]
            /\ migPc' = "returned"
            /\ UNCHANGED allRows
    /\ cursor' = 0
    /\ UNCHANGED <<dbs, dbs0, options, oldDbPath, lastWrite, rounds>>

\* A batch of code blocks is added and the counts of its documents updated.
MigrateCodeBlocksBatch(outcome) ==
    /\ migPc = "code_blocks"
    /\ AddBatch("code_blocks", outcome)

MigrateCodeBlocksDone ==
    /\ migPc = "code_blocks" /\ cursor >= Len(allRows)
    /\ result' = [result EXCEPT !.codeBlocksMigrated = Len(allRows)]
    /\ migPc' = "keywords"
    /\ UNCHANGED <<dbs, dbs0, options, oldDbPath, allRows, cursor, lastWrite, rounds>>

\* buildKeywordIndex, then the counts of the tag and language tables.
BuildKeywordIndex(outcome) ==
    /\ migPc = "keywords"
    /\ LET keywords == KeywordsOf(RowsAt("db", "documents"))
       IN  IF keywords = <<>>
           THEN /\ outcome = "ok"
                /\ result' = [result EXCEPT
                                 !.tagsMigrated = Len(RowsAt("db", "document_tags")),
                                 !.languagesMigrated =
                                     Len(RowsAt("db", "document_languages"))]
                /\ migPc' = "indexes"
                /\ UNCHANGED <<dbs, lastWrite>>
           ELSE /\ lastWrite' = [attempts |-> 1, outcome |-> outcome]
                /\ IF outcome = "ok"
                   THEN /\ dbs' = Added("keywords", keywords)
                        /\ result' = [result EXCEPT
                                 !.keywordsCreated = Len(keywords),
                                 !.tagsMigrated = Len(RowsAt("db", "document_tags")),
                                 !.languagesMigrated =
                                     Len(RowsAt("db", "document_languages"))]
                        /\ migPc' = "indexes"
                   ELSE /\ Fail(ErrorOf(outcome))
                        /\ UNCHANGED dbs
    /\ UNCHANGED <<dbs0, options, oldDbPath, allRows, cursor, rounds>>

\* createScalarIndexes rethrows; createVectorIndexes is skipped below the
\* minimum, and rethrows everything but a timeout.
CreateIndexes(scalarOk, vectorOutcome) ==
    /\ migPc = "indexes"
    /\ ~options.createIndexes => scalarOk
    /\ (~options.createIndexes \/ ~scalarOk
          \/ Len(RowsAt("db", "chunks")) < MinVectorsForIvfPq)
         => vectorOutcome = "built"
    /\ IF options.createIndexes /\ ~scalarOk
       THEN Fail("index failed")
       ELSE IF /\ options.createIndexes
               /\ Len(RowsAt("db", "chunks")) >= MinVectorsForIvfPq
               /\ vectorOutcome = "failed"
       THEN Fail("index failed")
       ELSE migPc' = "version" /\ UNCHANGED result
    /\ UNCHANGED <<dbs, dbs0, options, oldDbPath, allRows, cursor, lastWrite, rounds>>

RecordSchemaVersion(outcome) ==
    /\ migPc = "version"
    /\ lastWrite' = [attempts |-> 1, outcome |-> outcome]
    /\ IF outcome = "ok"
       THEN /\ dbs' = Added("schema_version", <<Row("now", NoColumn)>>)
            /\ migPc' = "validate"
            /\ UNCHANGED result
       ELSE /\ Fail(ErrorOf(outcome))
            /\ UNCHANGED dbs
    /\ UNCHANGED <<dbs0, options, oldDbPath, allRows, cursor, rounds>>

\* Mutant of Verdict: a validation that failed is reported as passed.
VerdictAlwaysValid(isValid) == TRUE

\* `if (!isValid) {...} else { result.success = true }`
Verdict(isValid) == isValid

\* Phase 5 and the return.  A read of validateMigration that throws makes it
\* return false.
Validate(readOk) ==
    /\ migPc = "validate"
    /\ ~options.validateAfterMigration => readOk
    /\ LET isValid == readOk /\ validateMigration(dbs[oldDbPath], dbs["db"])
       IN  IF options.validateAfterMigration /\ ~Verdict(isValid)
           THEN result' = [result EXCEPT
                              !.errors = Append(@, "Migration validation failed"),
                              !.success = FALSE]
           ELSE result' = [result EXCEPT !.success = TRUE]
    /\ migPc' = "returned"
    /\ UNCHANGED <<dbs, dbs0, options, oldDbPath, allRows, cursor, lastWrite, rounds>>

NextMigration ==
    \/ /\ Locate
       /\ UNCHANGED besidesMigration
    \/ /\ DropV1Tables
       /\ UNCHANGED besidesMigration
    \/ \E k \in 0..Len(V1Tables) : CreateV1Schema(k)
          /\ UNCHANGED besidesMigration
    \/ /\ CleanupSampleRecords
       /\ UNCHANGED besidesMigration
    \/ \E outcome \in WriteOutcomes : MigrateDocumentsBatch(outcome)
          /\ UNCHANGED besidesMigration
    \/ /\ MigrateDocumentsDone
       /\ UNCHANGED besidesMigration
    \/ \E outcome \in WriteOutcomes : MigrateChunksBatch(outcome)
          /\ UNCHANGED besidesMigration
    \/ /\ MigrateChunksDone
       /\ UNCHANGED besidesMigration
    \/ \E outcome \in WriteOutcomes : MigrateCodeBlocksBatch(outcome)
          /\ UNCHANGED besidesMigration
    \/ /\ MigrateCodeBlocksDone
       /\ UNCHANGED besidesMigration
    \/ \E outcome \in WriteOutcomes : BuildKeywordIndex(outcome)
          /\ UNCHANGED besidesMigration
    \/ \E scalarOk \in BOOLEAN, vectorOutcome \in {"built", "failed", "timeout"} :
          CreateIndexes(scalarOk, vectorOutcome)
          /\ UNCHANGED besidesMigration
    \/ \E outcome \in WriteOutcomes : RecordSchemaVersion(outcome)
          /\ UNCHANGED besidesMigration
    \/ \E readOk \in BOOLEAN : Validate(readOk)
          /\ UNCHANGED besidesMigration

(***************************************************************************)
(* Schema preparation on its own, on a database in any state, run once and *)
(* once more.                                                              *)
(***************************************************************************)
\* What a table of the database can hold before the preparation.
TableStates == {Absent, Holding(<<>>), Holding(<<Row("c1", "d1")>>)}

InitPrepare ==
    /\ \E db \in [TableNames -> TableStates] :
          dbs = [p \in Paths |-> IF p = "db" THEN db ELSE NoDirectory]
    /\ dbs0 = dbs
    /\ files = ListingOf(dbs)
    /\ options = DefaultOptions
    /\ migPc = "drop"
    /\ oldDbPath = "db"
    /\ result = NoResult
    /\ allRows = <<>>
    /\ cursor = 0
    /\ lastWrite = NoWrite
    /\ rounds = 0

\* The preparation is started a second time.
PrepareAgain ==
    /\ migPc = "documents" /\ rounds < 2
    /\ migPc' = "drop"
    /\ UNCHANGED <<dbs, dbs0, options, oldDbPath, result, allRows, cursor,
                   lastWrite, rounds>>

NextPrepare ==
    \/ /\ DropV1Tables
       /\ UNCHANGED besidesMigration
    \/ \E k \in 0..Len(V1Tables) : CreateV1Schema(k)
          /\ UNCHANGED besidesMigration
    \/ /\ CleanupSampleRecords
       /\ UNCHANGED besidesMigration
    \/ /\ PrepareAgain
       /\ UNCHANGED besidesMigration

(***************************************************************************)
(* Phase 5 on its own: validateMigration on a source and a destination     *)
(* that other writers may have changed since the rows were copied.         *)
(***************************************************************************)
\* A destination of the v1 layout holding the given numbers of rows.
V1Database(chunks, blocks, documents) ==
    [t \in TableNames |->
        IF t = "chunks" THEN Holding(SubSeq(OldChunks, 1, chunks))
        ELSE IF t = "code_blocks" THEN Holding(SubSeq(OldBlocks, 1, blocks))
        ELSE IF t = "documents"
             THEN Holding(SubSeq(DocumentsOf(OldChunks), 1, documents))
        ELSE IF t = "schema_version" THEN Holding(<<Row("now", NoColumn)>>)
        ELSE Holding(<<>>)]

InitValidate ==
    /\ \E n \in 0..MaxChunks, blocks \in -1..MaxBlocks,
          m \in 0..MaxChunks, newBlocks \in 0..MaxBlocks, documents \in 0..1 :
          dbs = [p \in Paths |->
                    IF p = "db" THEN V1Database(m, newBlocks, documents)
                    ELSE OldDatabase(n, blocks)]
    /\ dbs0 = dbs
    /\ files = ListingOf(dbs)
    /\ options \in [batchSize : {0}, dryRun : {FALSE}, createIndexes : {TRUE},
                    validateAfterMigration : BOOLEAN]
    /\ migPc = "validate"
    /\ oldDbPath = "db.backup"
    /\ result = NoResult
    /\ allRows = <<>>
    /\ cursor = 0
    /\ lastWrite = NoWrite
    /\ rounds = 1

NextValidate ==
    \/ \E readOk \in BOOLEAN : Validate(readOk)
          /\ UNCHANGED besidesMigration

(***************************************************************************)
(* Source selection of migrateToV1: the backups next to the database, most *)
(* recent first, as filter and sort leave them.                            *)
(***************************************************************************)
\* Names in the parent directory at most.
MaxFiles == 3

\* The names a parent directory can hold: the database, backups with a
\* numeric and with another suffix, and a backup of another database.
FileNames == {"db", "db.backup.90", "db.backup.100", "db.backup.200",
              "db.backup.old", "db2.backup.300"}

\* f.startsWith(`${dbBaseName}.backup.`) for dbBaseName = 'db'
StartsWithBackup(f) ==
    f \in {"db.backup.90", "db.backup.100", "db.backup.200", "db.backup.old"}

\* a.match(/\.backup\.(\d+)$/) and parseInt of its group; NoMatch for null.
NoMatch == -1
Timestamp(f) ==
    IF f = "db.backup.90" THEN 90
    ELSE IF f = "db.backup.100" THEN 100
    ELSE IF f = "db.backup.200" THEN 200
    ELSE IF f = "db2.backup.300" THEN 300
    ELSE NoMatch

\* The comparator given to sort.
Compare(a, b) ==
    IF Timestamp(a) = NoMatch \/ Timestamp(b) = NoMatch THEN 0
    ELSE Timestamp(b) - Timestamp(a)

\* Array.prototype.sort on a short array: each element is inserted into the
\* sorted run before it, moving left past the elements that compare greater.
RECURSIVE InsertSorted(_, _)
InsertSorted(run, x) ==
    IF run = <<>> THEN <<x>>
    ELSE LET last == run[Len(run)]
         IN  IF Compare(last, x) > 0
             THEN Append(InsertSorted(SubSeq(run, 1, Len(run) - 1), x), last)
             ELSE Append(run, x)

RECURSIVE Sorted(_)
Sorted(names) ==
    IF names = <<>> THEN <<>>
    ELSE InsertSorted(Sorted(SubSeq(names, 1, Len(names) - 1)), names[Len(names)])

\* files.filter(...).sort(...)
Backups(listing) == Sorted(SelectSeq(listing, StartsWithBackup))

\* oldDbPath after the try block: the first backup, or dbPath when there is
\* none or when readdirSync threw.
SourceAmong(listing, readOk) ==
    IF readOk /\ Backups(listing) # <<>> THEN Backups(listing)[1] ELSE "db"

\* The listings: every order of every set of at most MaxFiles names.
Listings ==
    { l \in UNION { [1..n -> FileNames] : n \in 0..MaxFiles } :
        \A i \in 1..Len(l), j \in 1..Len(l) : i # j => l[i] # l[j] }

InitLocate ==
    /\ files \in Listings
    /\ dbs = [p \in Paths |-> NoDirectory]
    /\ dbs0 = dbs
    /\ options = DefaultOptions
    /\ migPc = "start"
    /\ oldDbPath = "db"
    /\ result = NoResult
    /\ allRows = <<>>
    /\ cursor = 0
    /\ lastWrite = NoWrite
    /\ rounds = 0

\* migrateToV1 up to `lancedb.connect(oldDbPath)`.
LocateAmong(readOk) ==
    /\ migPc = "start"
    /\ oldDbPath' = SourceAmong(files, readOk)
    /\ migPc' = IF readOk THEN "located" ELSE "located blind"
    /\ UNCHANGED <<dbs, dbs0, options, result, allRows, cursor, lastWrite, rounds,
                   files>>

NextLocate ==
    \/ \E readOk \in BOOLEAN : LocateAmong(readOk)
          /\ UNCHANGED besidesLocate

(***************************************************************************)
(* Index parameters.  calculateIVF_PQ_Params is a function of the number   *)
(* of vectors and of the embedding dimension; createVectorIndexes skips    *)
(* small tables and builds one index per table with the parameters.        *)
(***************************************************************************)
NoEnv == [name \in {} |-> <<>>]

NoIndexConfig == [type |-> "none", metricType |-> "none",
                  num_partitions |-> 0, num_sub_vectors |-> 0]

NoCall == [fn |-> "none", vectorCount |-> 0, embeddingDim |-> 0,
           skipped |-> FALSE, config |-> NoIndexConfig, created |-> <<>>,
           raised |-> FALSE]

UtilityIdle ==
    /\ env = NoEnv
    /\ fnCall = NoCall

MathMax(a, b) == IF a >= b THEN a ELSE b

MathMin(a, b) == IF a <= b THEN a ELSE b

\* Math.floor(Math.sqrt(n)), exact for the counts a table can hold.
MathFloorSqrt(n) == CHOOSE r \in 0..n : r * r <= n /\ (r + 1) * (r + 1) > n

calculateUncapped(vectorCount, embeddingDim) ==
    [type |-> "ivf_pq", metricType |-> "cosine",
     num_partitions |-> MathMax(16, MathFloorSqrt(vectorCount)),
     num_sub_vectors |-> MathMax(4, embeddingDim \div 16)]

calculateIVF_PQ_Params(vectorCount, embeddingDim) ==
    LET numPartitions == MathMax(16, MathFloorSqrt(vectorCount))
        numSubVectors == MathMax(4, embeddingDim \div 16)
    IN  [type |-> "ivf_pq", metricType |-> "cosine",
         num_partitions |-> MathMin(numPartitions, 2048),
         num_sub_vectors |-> MathMin(numSubVectors, 256)]

\* Row counts on both sides of the threshold and of the two limits of the
\* partition count; dimensions on both sides of the limits of the
\* sub-vector count, the default 1536 among them.
VectorCounts == {0, 1, 255, 256, 257, 288, 289, 1000, 4194303, 4194304,
                 4198400, 4198401, 4200000}

EmbeddingDims == {0, 15, 63, 64, 80, 384, 1536, 4095, 4096, 4111, 4112, 5000}

InitIndexParams ==
    /\ env = NoEnv
    /\ \E n \in VectorCounts, dim \in EmbeddingDims :
          fnCall = [NoCall EXCEPT !.vectorCount = n, !.embeddingDim = dim]

\* The index of one table as createIndex was asked to build it.
IndexOn(tableName, c) ==
    [table |-> tableName, type |-> c.type, metricType |-> c.metricType,
     num_partitions |-> c.num_partitions, num_sub_vectors |-> c.num_sub_vectors]

CalculateParams ==
    /\ fnCall.fn = "none"
    /\ fnCall' = [fnCall EXCEPT !.fn = "calculateIVF_PQ_Params",
                            !.config = calculateIVF_PQ_Params(fnCall.vectorCount,
                                                              fnCall.embeddingDim)]
    /\ UNCHANGED env

\* createVectorIndexes: a timeout ends the call quietly, any other failure
\* is raised; the code_blocks index is attempted after the chunks index.
CreateVectorIndexes(chunksOutcome, blocksOutcome) ==
    /\ fnCall.fn = "none"
    /\ IF fnCall.vectorCount < MinVectorsForIvfPq
       THEN fnCall' = [fnCall EXCEPT !.fn = "createVectorIndexes", !.skipped = TRUE]
       ELSE LET c == calculateIVF_PQ_Params(fnCall.vectorCount, fnCall.embeddingDim)
                onChunks == IF chunksOutcome = "built"
                            THEN <<IndexOn("chunks", c)>> ELSE <<>>
                onBlocks == IF chunksOutcome = "built" /\ blocksOutcome = "built"
                            THEN <<IndexOn("code_blocks", c)>> ELSE <<>>
            IN  fnCall' = [fnCall EXCEPT
                    !.fn = "createVectorIndexes",
                    !.config = c,
                    !.created = onChunks \o onBlocks,
                    !.raised = \/ chunksOutcome = "failed"
                               \/ chunksOutcome = "built" /\ blocksOutcome = "failed"]
    /\ UNCHANGED env

NextIndexParams ==
    \/ CalculateParams
          /\ UNCHANGED besidesUtility
    \/ \E chunksOutcome \in IndexOutcomes, blocksOutcome \in IndexOutcomes :
          CreateVectorIndexes(chunksOutcome, blocksOutcome)
          /\ UNCHANGED besidesUtility

(***************************************************************************)
(* Request timeouts.  The three variables of process.env are read on every *)
(* call.  A string is a sequence of characters; a number is finite with    *)
(* its value, or one of the infinities Number.parseInt returns for a       *)
(* decimal beyond the range of a double.                                   *)
(***************************************************************************)
DEFAULT_TIMEOUT_MS == 30000

ENV_TIMEOUT_GLOBAL == "MCP_REQUEST_TIMEOUT_MS"

ENV_TIMEOUT_AI_SEARCH == "MCP_AI_SEARCH_TIMEOUT_MS"

ENV_TIMEOUT_EMBEDDING == "MCP_EMBEDDING_TIMEOUT_MS"

TimeoutOperationType == {"ai-search", "embedding", "global"}

Finite(v) == [kind |-> "finite", sign |-> IF v < 0 THEN -1 ELSE 1, value |-> v]

Infinite(sign) == [kind |-> "infinity", sign |-> sign, value |-> 0]

Unset == [set |-> FALSE, text |-> <<>>]

Text(t) == [set |-> TRUE, text |-> t]

DigitChars == <<"0", "1", "2", "3", "4", "5", "6", "7", "8", "9">>

IsDigit(c) == \E i \in 1..Len(DigitChars) : DigitChars[i] = c

DigitValue(c) == (CHOOSE i \in 1..Len(DigitChars) : DigitChars[i] = c) - 1

\* String.prototype.trim over the white space of the model, the blank.
RECURSIVE TrimStart(_)
TrimStart(s) == IF s # <<>> /\ s[1] = " " THEN TrimStart(Tail(s)) ELSE s

RECURSIVE TrimEnd(_)
TrimEnd(s) ==
    IF s # <<>> /\ s[Len(s)] = " " THEN TrimEnd(SubSeq(s, 1, Len(s) - 1)) ELSE s

Trim(s) == TrimEnd(TrimStart(s))

\* /^-?\d+$/
numericRegex(s) ==
    LET body == IF s # <<>> /\ s[1] = "-" THEN Tail(s) ELSE s
    IN  /\ body # <<>>
        /\ \A i \in 1..Len(body) : IsDigit(body[i])

RECURSIVE Significant(_)
Significant(digits) ==
    IF digits # <<>> /\ digits[1] = "0" THEN Significant(Tail(digits)) ELSE digits

RECURSIVE DecimalValue(_)
DecimalValue(digits) ==
    IF digits = <<>> THEN 0
    ELSE 10 * DecimalValue(SubSeq(digits, 1, Len(digits) - 1))
         + DigitValue(digits[Len(digits)])

\* Number.parseInt(s, 10) of a string numericRegex accepts.  A decimal of 310
\* significant digits or more is beyond the largest double and gives an
\* infinity; one of up to nine digits gives its value.  The strings of the
\* model are of these two kinds.
ParseInt(s) ==
    LET negative == s[1] = "-"
        digits == Significant(IF negative THEN Tail(s) ELSE s)
    IN  IF Len(digits) >= 310
        THEN Infinite(IF negative THEN -1 ELSE 1)
        ELSE Finite(IF negative THEN 0 - DecimalValue(digits)
                    ELSE DecimalValue(digits))

IsNaN(x) == x.kind = "nan"

AtMostZero(x) == IF x.kind = "finite" THEN x.value <= 0 ELSE x.sign < 0

parseTimeoutValue(value, fallback) ==
    IF ~value.set \/ Trim(value.text) = <<>>
    THEN fallback
    ELSE LET trimmed == Trim(value.text)
         IN  IF ~numericRegex(trimmed) THEN fallback
             ELSE LET parsed == ParseInt(trimmed)
                  IN  IF IsNaN(parsed) THEN fallback
                      ELSE IF AtMostZero(parsed) THEN fallback
                      ELSE parsed

getGlobalTimeout == parseTimeoutValue(env[ENV_TIMEOUT_GLOBAL], Finite(DEFAULT_TIMEOUT_MS))

getRequestTimeout(operation) ==
    LET globalTimeout == getGlobalTimeout
    IN  CASE operation = "ai-search" ->
                 parseTimeoutValue(env[ENV_TIMEOUT_AI_SEARCH], globalTimeout)
          [] operation = "embedding" ->
                 parseTimeoutValue(env[ENV_TIMEOUT_EMBEDDING], globalTimeout)
          [] OTHER -> globalTimeout

Chars(word) ==
    CASE word = "15000" -> <<"1", "5", "0", "0", "0">>
      [] word = " 45 " -> <<" ", "4", "5", " ">>
      [] word = "007" -> <<"0", "0", "7">>
      [] word = "0" -> <<"0">>
      [] word = "-5" -> <<"-", "5">>
      [] word = "30s" -> <<"3", "0", "s">>
      [] word = "1.5" -> <<"1", ".", "5">>
      [] word = "+5" -> <<"+", "5">>
      [] word = " " -> <<" ">>
      [] word = "" -> <<>>

\* 310 nines: a decimal string beyond the range of a double.
Overlong == [i \in 1..310 |-> "9"]

TimeoutTexts ==
    { Chars(word) : word \in {"15000", " 45 ", "007", "0", "-5", "30s", "1.5",
                              "+5", " ", ""} } \cup {Overlong}

EnvValues == {Unset} \cup { Text(t) : t \in TimeoutTexts }

NoTimeoutCall == [fn |-> "none", operation |-> "none", returned |-> Finite(0)]

InitTimeouts ==
    /\ env \in [{ENV_TIMEOUT_GLOBAL, ENV_TIMEOUT_AI_SEARCH, ENV_TIMEOUT_EMBEDDING}
                 -> EnvValues]
    /\ fnCall = NoTimeoutCall

GetRequestTimeout(operation) ==
    /\ fnCall.fn = "none"
    /\ fnCall' = [fn |-> "getRequestTimeout", operation |-> operation,
                  returned |-> getRequestTimeout(operation)]
    /\ UNCHANGED env

NextTimeouts ==
    \E operation \in TimeoutOperationType : GetRequestTimeout(operation)
          /\ UNCHANGED besidesUtility

(***************************************************************************)
(* Keywords.  A text is the sequence of the words that splitting it at     *)
(* white space and punctuation gives; extractKeywords lowers them, keeps   *)
(* those longer than three characters and returns the most frequent ones,  *)
(* each once.                                                              *)
(***************************************************************************)
\* Words in a text at most.
MaxWords == 4

Vocabulary == {"cache", "Cache", "index", "the"}

toLowerCase(word) ==
    CASE word = "Cache" -> "cache"
      [] word = "API" -> "api"
      [] word = "TS" -> "ts"
      [] OTHER -> word

WordLength(word) == IF word = "the" THEN 3 ELSE 5

Texts == UNION { [1..n -> Vocabulary] : n \in 0..MaxWords }

\* The keys of the frequency map, in the order of their first appearance.
RECURSIVE FirstAppearances(_)
FirstAppearances(words) ==
    IF words = <<>> THEN <<>>
    ELSE LET before == FirstAppearances(SubSeq(words, 1, Len(words) - 1))
             w      == words[Len(words)]
         IN  IF \E i \in 1..Len(before) : before[i] = w
             THEN before ELSE Append(before, w)

\* frequency.get(word) once the loop over words has ended.
FrequencyIn(words, word) == Cardinality({ i \in 1..Len(words) : words[i] = word })

extractKeywords(text, maxKeywords) ==
    LET lowered == [i \in 1..Len(text) |-> toLowerCase(text[i])]
        words   == SelectSeq(lowered, LAMBDA w : WordLength(w) > 3)
        keys    == FirstAppearances(words)
        entries == [i \in 1..Len(keys) |->
                      [item |-> keys[i], key |-> 0 - FrequencyIn(words, keys[i])]]
        sorted  == Take(SortBy(entries), maxKeywords)
    IN  [i \in 1..Len(sorted) |-> sorted[i].item]

\* The keyword rows buildKeywordIndex pushes for one document: the title
\* keywords with frequency 1, then the content keywords with the number of
\* times each stands in the list extractKeywords returned.
KeywordRows(title, content) ==
    LET titleKeywords   == extractKeywords(title, 10)
        contentKeywords == extractKeywords(content, 40)
        keys            == FirstAppearances(contentKeywords)
    IN  [i \in 1..Len(titleKeywords) |->
            [keyword |-> titleKeywords[i], source |-> "title", frequency |-> 1]]
        \o
        [i \in 1..Len(keys) |->
            [keyword |-> keys[i], source |-> "content",
             frequency |-> FrequencyIn(contentKeywords, keys[i])]]

NoKeywordCall == [fn |-> "none", title |-> <<>>, content |-> <<>>, rows |-> <<>>]

InitKeywords ==
    /\ env = NoEnv
    /\ \E title \in {<<>>, <<"Cache", "the">>}, content \in Texts :
          fnCall = [NoKeywordCall EXCEPT !.title = title, !.content = content]

KeywordsOfDocument ==
    /\ fnCall.fn = "none"
    /\ fnCall' = [fnCall EXCEPT !.fn = "buildKeywordIndex",
                                !.rows = KeywordRows(fnCall.title, fnCall.content)]
    /\ UNCHANGED env

NextKeywords ==
    /\ KeywordsOfDocument
    /\ UNCHANGED besidesUtility

(***************************************************************************)
(* Tags and languages.  migrateDocuments writes one document_tags row per  *)
(* entry of metadata.tags and one document_languages row per entry of      *)
(* metadata.languages of the first chunk of the document.                  *)
(***************************************************************************)
\* Entries in a tag list or a language list at most.
MaxLabels == 2

TagLists == UNION { [1..n -> {"api", "API", "db"}] : n \in 0..MaxLabels }

LanguageLists == UNION { [1..n -> {"ts", "TS"}] : n \in 0..MaxLabels }

TagRows(documentId, tagsArray) ==
    [i \in 1..Len(tagsArray) |->
        [document_id |-> documentId, tag |-> toLowerCase(tagsArray[i])]]

LanguageRows(documentId, languagesArray) ==
    [i \in 1..Len(languagesArray) |->
        [document_id |-> documentId, language_code |-> toLowerCase(languagesArray[i])]]

NoLabelCall == [fn |-> "none", tags |-> <<>>, languages |-> <<>>,
                document_tags |-> <<>>, document_languages |-> <<>>]

InitLabels ==
    /\ env = NoEnv
    /\ \E tagsArray \in TagLists, languagesArray \in LanguageLists :
          fnCall = [NoLabelCall EXCEPT !.tags = tagsArray, !.languages = languagesArray]

\* migrateDocuments on a source holding one document, d1.
LabelsOfDocument ==
    /\ fnCall.fn = "none"
    /\ fnCall' = [fnCall EXCEPT
                     !.fn = "migrateDocuments",
                     !.document_tags = TagRows("d1", fnCall.tags),
                     !.document_languages = LanguageRows("d1", fnCall.languages)]
    /\ UNCHANGED env

NextLabels ==
    /\ LabelsOfDocument
    /\ UNCHANGED besidesUtility

(***************************************************************************)
(* Specifications: one per component, the other components at rest.        *)
(***************************************************************************)
vars == <<cacheVars, adapterVars, migrationVars, utilityVars>>

CacheIdle ==
    /\ InitCache
    /\ config = [l1MaxSize |-> 1, l1Ttl |-> 1000, l2Enabled |-> FALSE, l2Ttl |-> 1500]

InitCacheOnly == InitCache /\ AdapterIdle /\ MigrationIdle /\ UtilityIdle

InitAdapterOnly == CacheIdle /\ AdapterIdle /\ MigrationIdle /\ UtilityIdle

SpecCache == InitCacheOnly /\ [][NextCache]_vars

SpecCanon == InitCacheOnly /\ [][NextCanon]_vars

InitEvictionOnly == InitEviction /\ AdapterIdle /\ MigrationIdle /\ UtilityIdle

SpecEviction == InitEvictionOnly /\ [][NextEviction]_vars

InitStatsOnly == InitStats /\ AdapterIdle /\ MigrationIdle /\ UtilityIdle

SpecStats == InitStatsOnly /\ [][NextStats]_vars

InitInflightOnly == InitInflight /\ AdapterIdle /\ MigrationIdle /\ UtilityIdle

SpecInflight == InitInflightOnly /\ [][NextInflight]_vars

InitConnectOnly == InitConnect /\ AdapterIdle /\ MigrationIdle /\ UtilityIdle

SpecConnect == InitConnectOnly /\ [][NextConnect]_vars

SpecAdapter == InitAdapterOnly /\ [][NextAdapter]_vars

SpecRace == InitAdapterOnly /\ [][NextRace]_vars

SpecCodeBlocks == InitAdapterOnly /\ [][NextCodeBlocks]_vars

SpecLifecycle == InitAdapterOnly /\ [][NextLifecycle]_vars

InitMigrationOnly == CacheIdle /\ AdapterIdle /\ InitMigration /\ UtilityIdle

InitPrepareOnly == CacheIdle /\ AdapterIdle /\ InitPrepare /\ UtilityIdle

SpecMigration == InitMigrationOnly /\ [][NextMigration]_vars

InitLocateOnly == CacheIdle /\ AdapterIdle /\ InitLocate /\ UtilityIdle

SpecLocate == InitLocateOnly /\ [][NextLocate]_vars

SpecPrepare == InitPrepareOnly /\ [][NextPrepare]_vars

InitValidateOnly == CacheIdle /\ AdapterIdle /\ InitValidate /\ UtilityIdle

SpecValidate == InitValidateOnly /\ [][NextValidate]_vars

InitIndexParamsOnly == CacheIdle /\ AdapterIdle /\ MigrationIdle /\ InitIndexParams

SpecIndexParams == InitIndexParamsOnly /\ [][NextIndexParams]_vars

InitTimeoutsOnly == CacheIdle /\ AdapterIdle /\ MigrationIdle /\ InitTimeouts

SpecTimeouts == InitTimeoutsOnly /\ [][NextTimeouts]_vars

InitKeywordsOnly == CacheIdle /\ AdapterIdle /\ MigrationIdle /\ InitKeywords

SpecKeywords == InitKeywordsOnly /\ [][NextKeywords]_vars

InitLabelsOnly == CacheIdle /\ AdapterIdle /\ MigrationIdle /\ InitLabels

SpecLabels == InitLabelsOnly /\ [][NextLabels]_vars

(***************************************************************************)
(* Properties of the storage adapter.                                      *)
(***************************************************************************)
RowsOf(d, rows) == SelectSeq(rows, LAMBDA r : r.document_id = d)

C12_MissingTableIsEmpty ==
    /\ (adapterInitialized /\ ~chunksTable.exists
          /\ adRet.op \in {"search", "getChunk", "removeChunks"})
         => (~adRet.raised /\ adRet.results = <<>> /\ adRet.touched = 0
               /\ chunksTable = NoTable)
    /\ (adapterInitialized /\ ~blocksTable.exists
          /\ adRet.op \in {"searchCodeBlocks", "getCodeBlocksByDocument"})
         => (~adRet.raised /\ adRet.results = <<>> /\ blocksTable = NoTable)

\* C12 witness: searchCodeBlocks has returned on an initialized adapter that
\* has neither table.
C12_Witness ==
    /\ adapterInitialized /\ ~chunksTable.exists /\ ~blocksTable.exists
    /\ adRet.op = "searchCodeBlocks" /\ ~adRet.raised

\* C13: on an initialized adapter and an engine that is not failing,
\* addChunks([]) and addCodeBlocks([]) complete without raising, whether the
\* table exists or not.
C13_EmptyBatchIsNoOp ==
    (adapterInitialized /\ adRet.op \in {"addChunks", "addCodeBlocks"}
       /\ adRet.given = 0 /\ adRet.fault # EngineError)
      => ~adRet.raised

\* C14: when the engine's create, add or delete call fails, the error that
\* addChunks, addCodeBlocks and removeChunks raise is the engine's error
\* itself.
C14_EngineErrorUnchanged ==
    (adRet.op \in {"addChunks", "addCodeBlocks", "removeChunks"}
       /\ adRet.raised /\ adRet.fault = EngineError)
      => adRet.error = adRet.fault

\* C15: an initialize, addChunks or addCodeBlocks whose index creation failed
\* or ran into its deadline still completes: it does not raise, the rows of
\* the batch are in the table, and a search that the engine answers returns
\* without raising while there is no index.
C15_IndexFailureNotFatal ==
    /\ [][ (adRet' # adRet /\ adRet'.index \cap {"failed", "timeout"} # {})
           => /\ ~adRet'.raised
              /\ adapterInitialized'
              /\ adRet'.op = "addChunks"
                   => /\ Len(chunksTable'.rows) = adRet'.given
                      /\ adRet'.given > 0
                      /\ table' = "open"
              /\ adRet'.op = "addCodeBlocks"
                   => /\ Len(blocksTable'.rows) = adRet'.given
                      /\ codeBlocksTable' = "open" ]_vars
    /\ []((adRet.op = "search" /\ adapterInitialized /\ adRet.fault = NoError)
            => ~adRet.raised)

\* C15 witness: addChunks has stored its rows although the index creation
\* ran into the deadline.
C15_Witness ==
    /\ adRet.op = "addChunks" /\ ~adRet.raised /\ "timeout" \in adRet.index
    /\ adRet.touched > 0 /\ Len(chunksTable.rows) = adRet.touched
    /\ chunksIndex = "building"

(***************************************************************************)
(* Properties of the migration.                                            *)
(***************************************************************************)
\* C6: when migrateToV1 has returned, with success or with failure, with or
\* without a backup, the chunks and code_blocks tables of its source hold the
\* rows they held when it was called.
C6_SourceUntouched ==
    migPc = "returned" =>
        /\ dbs[oldDbPath]["chunks"] = dbs0[oldDbPath]["chunks"]
        /\ dbs[oldDbPath]["code_blocks"] = dbs0[oldDbPath]["code_blocks"]

\* C7: whenever migrateToV1 returns success = true, the chunks table of the
\* destination holds as many rows as the source's chunks table held, whatever
\* the batch size, and validateMigration of the two databases is true.
C7_CountInvariant ==
    (migPc = "returned" /\ result.success /\ ~options.dryRun) =>
        /\ Len(RowsAt("db", "chunks")) = Len(dbs0[oldDbPath]["chunks"].rows)
        /\ validateMigration(dbs[oldDbPath], dbs["db"])

\* C8: a migration is declared failed for a write conflict only after the
\* conflicting write has been attempted again up to the retry limit.
C8_ConflictRetried ==
    (migPc = "returned" /\ lastWrite.outcome = "conflict") =>
        lastWrite.attempts = maxRetries + 1

\* C9: after schema preparation, run once or twice, each of the seven tables
\* of the destination exists and holds no row.
C9_PreparedTablesEmpty ==
    (migPc = "documents" /\ rounds >= 1) =>
        \A t \in TableNames : dbs["db"][t] = Holding(<<>>)

\* C10: a dry run returns success = true, every count 0 and no error, and
\* leaves every table of every database as it was.
C10_DryRunTouchesNothing ==
    (migPc = "returned" /\ options.dryRun) =>
        /\ result = [NoResult EXCEPT !.success = TRUE]
        /\ dbs = dbs0

\* C10 witness: a dry run has returned on a database that holds chunks and has
\* no backup, where a run that is not dry would have dropped them.
C10_Witness ==
    /\ migPc = "returned" /\ options.dryRun
    /\ oldDbPath = "db"
    /\ Len(RowsAt("db", "chunks")) > 0

\* C11: when the validation of phase 5 fails (the chunk counts or the
\* code-block counts differ, the destination holds no document, or a read of
\* the validation throws), migrateToV1 returns success = false with
\* 'Migration validation failed' as its error, and no table or row of any
\* database is deleted by it.
C11_FailedValidationKeepsData ==
    [][ (migPc = "validate" /\ migPc' = "returned") =>
          /\ dbs' = dbs
          /\ (options.validateAfterMigration
                /\ ~validateMigration(dbs[oldDbPath], dbs["db"]))
               => (/\ ~result'.success
                   /\ result'.errors = <<"Migration validation failed">>)
          /\ result'.success = (result'.errors = <<>>) ]_vars

\* C11 witness: the validation has failed on a chunk-count mismatch, with
\* rows in the destination.
C11_Witness ==
    /\ migPc = "returned" /\ ~result.success
    /\ result.errors = <<"Migration validation failed">>
    /\ Len(RowsAt("db", "chunks")) > 0
    /\ Len(RowsAt("db", "chunks")) # Len(RowsAt(oldDbPath, "chunks"))

\* C16: no failure of an index creation makes migrateToV1 fail: the error
\* list of a returned migration never holds the error of an index creation.
C16_IndexFailureDoesNotFailMigration ==
    migPc = "returned" =>
        \A i \in 1..Len(result.errors) : result.errors[i] # "index failed"

(***************************************************************************)
(* Properties of the query cache.                                          *)
(***************************************************************************)
\* A step that completes a get: only Get leaves a "get" record in ret.
\* A step from a completed set(q, v) to a completed get: the get was issued
\* at once, since the passing of time clears ret.
GetRightAfterSet == ret.op = "set" /\ ret'.op = "get"

\* C1 (as claimed): for every query q and value v (maxSize >= 1, ttl > 0), a
\* get(q) issued immediately after set(q, v) has completed returns v as an L1
\* hit and issues no L2 read.
C1_SetThenGetIsL1Hit ==
    [][ (GetRightAfterSet /\ ret'.query = ret.query
         /\ config.l1MaxSize >= 1 /\ config.l1Ttl > 0)
        => (ret'.tier = "l1" /\ ret'.data = ret.data /\ ~ret'.l2read) ]_vars

\* C1 (amended): set(q, v) leaves v in L1 under the key of q; a get(q) issued
\* immediately after set has completed returns v as an L1 hit without an L2
\* read provided the L1 TTL has not elapsed since set wrote L1, which is
\* always so when no L2 client is connected (set then never suspends).
C1_SetThenGetWithinTtl ==
    [][ (GetRightAfterSet /\ ret'.query = ret.query
         /\ config.l1MaxSize >= 1 /\ config.l1Ttl > 0)
        => LET key == KeyOf[ret.query]
           IN  /\ L1Has(l1Cache, key)
               /\ L1Get(l1Cache, key).data = ret.data
               /\ (l2Redis # "client" => L1Get(l1Cache, key).expires > now)
               /\ (L1Get(l1Cache, key).expires > now
                   => (ret'.tier = "l1" /\ ret'.data = ret.data /\ ~ret'.l2read)) ]_vars

\* C1 witness: a get served from L1 a value only set can have stored there,
\* on an instance whose L2 client is connected.
C1_Witness ==
    ret.op = "get" /\ ret.tier = "l1" /\ ret.data = "date" /\ l2Redis = "client"

\* C2 (as claimed): after invalidate(q) has completed, also when no L2 command
\* failed, the key of q is present in neither L1 nor L2, whether or not the
\* cache had been initialized before the call.
C2_InvalidateRemovesBothTiers ==
    (ret.op = "invalidate" /\ ~ret.l2err)
    => LET key == KeyOf[ret.query]
       IN  ~L1Has(l1Cache, key) /\ ~RedisHas(key, now)

\* C3 (as claimed): an entry stored at t0 with L1 TTL T is returned by every
\* get before t0+T and reported absent by every get at or after t0+T, and no
\* get creates, renews or removes an unexpired entry.
FixedExpiryStep ==
    LET key == KeyOf[ret'.query]
        e   == L1Get(l1Cache, key)
    IN  /\ (L1Has(l1Cache, key) /\ e.expires > now)
           => (ret'.tier = "l1" /\ ret'.data = e.data /\ l1Cache' = l1Cache)
        /\ (L1Has(l1Cache, key) /\ e.expires <= now)
           => (ret'.tier = "miss" /\ ret'.data = Null
               /\ l1Cache' = L1Delete(l1Cache, key))
        /\ ~L1Has(l1Cache, key) => l1Cache' = l1Cache

ExpiryFixedAtInsertion ==
    \A i \in 1..Len(l1Cache) :
        l1Cache[i].expires = l1Cache[i].createdAt + config.l1Ttl

C3_ExpiryFixedAtInsertion ==
    /\ []ExpiryFixedAtInsertion
    /\ [][ ret'.op = "get" => FixedExpiryStep ]_vars

\* C3 (amended): the same, for gets served while no L2 client is connected
\* (L2 disabled or unreachable).
C3_ExpiryFixedWithoutL2 ==
    /\ []ExpiryFixedAtInsertion
    /\ [][ (ret'.op = "get" /\ l2Redis' # "client") => FixedExpiryStep ]_vars

\* C3 witness: with L2 disabled, a get issued after t0 and before t0+T is
\* served the entry inserted at t0.
C3_Witness ==
    /\ ret.op = "get" /\ ret.tier = "l1" /\ ~config.l2Enabled
    /\ \E i \in 1..Len(l1Cache) :
          /\ l1Cache[i].key = KeyOf[ret.query]
          /\ l1Cache[i].createdAt < now /\ now < l1Cache[i].expires

\* C4: two query objects with the same properties built in a different order
\* have the same cache key, and a get on one issued right after a set on the
\* other finds the stored value in L1 and, unless it has expired, returns it
\* as a hit.
C4_KeyCanonical ==
    /\ [](\A q1 \in Queries, q2 \in Queries :
            SameFields(q1, q2) => getCacheKey(q1) = getCacheKey(q2))
    /\ [][ (GetRightAfterSet /\ SameFields(ret.query, ret'.query))
           => LET key == KeyOf[ret'.query]
              IN  /\ L1Has(l1Cache, key)
                  /\ L1Get(l1Cache, key).data = ret.data
                  /\ (L1Get(l1Cache, key).expires > now
                      => (ret'.tier = "l1" /\ ret'.data = ret.data)) ]_vars

\* C4 witness: a get with a query built one way is served from L1 the value
\* that a set with the same query built the other way has stored.
C4_Witness ==
    /\ ret.op = "get" /\ ret.tier = "l1" /\ ret.data = "date"
    /\ ret.query \in BuiltOtherWay

(***************************************************************************)
(* C17: no failure of the L2 tier makes a cache operation fail: get, set,  *)
(* invalidate, invalidatePattern, clear and close complete without         *)
(* raising whenever the L2 call they made failed.                          *)
(***************************************************************************)
C17_L2FailureNeverRaises ==
    (ret.op \in {"initialize", "get", "set", "invalidate", "invalidatePattern",
                 "clear", "close"} /\ ret.l2err) => ~ret.raised

(***************************************************************************)
(* C18: L1 eviction is FIFO.  The map lists its keys in the order they     *)
(* were admitted: a set of an absent key puts it last; when L1 is full     *)
(* that set evicts exactly the first key and keeps the others in order;    *)
(* and a get changes nothing of that order, whether it hits or misses.     *)
(***************************************************************************)
C18_EvictionIsFifo ==
    [][ LET key == KeyOf[ret'.query]
        IN  /\ (ret'.op = "set" /\ ~hung' /\ ~L1Has(l1Cache, key)
                  /\ l1Cache # <<>> /\ Len(l1Cache) >= config.l1MaxSize)
                 => /\ Len(l1Cache') = Len(l1Cache)
                    /\ SubSeq(l1Cache', 1, Len(l1Cache) - 1) = Tail(l1Cache)
                    /\ l1Cache'[Len(l1Cache')].key = key
                    /\ l1Stats'.evictions = l1Stats.evictions + 1
            /\ (ret'.op = "set" /\ ~hung' /\ ~L1Has(l1Cache, key)
                  /\ Len(l1Cache) < config.l1MaxSize)
                 => /\ Len(l1Cache') = Len(l1Cache) + 1
                    /\ SubSeq(l1Cache', 1, Len(l1Cache)) = l1Cache
                    /\ l1Cache'[Len(l1Cache')].key = key
            /\ (ret'.op = "get" /\ ~hung' /\ ret'.tier = "l1")
                 => l1Cache' = l1Cache
            /\ (ret'.op = "get" /\ ~hung' /\ ret'.tier = "miss")
                 => l1Cache' = L1Delete(l1Cache, key) ]_vars

\* A set has just evicted from an L1 of capacity 2 after a get was served
\* from L1.
C18_Witness ==
    /\ ret.op = "set"
    /\ config.l1MaxSize = 2
    /\ Len(l1Cache) = 2
    /\ l1Stats.evictions > 0
    /\ l1Stats.hits > 0

(***************************************************************************)
(* C19: L1 is bounded: for every maxSize >= 0 no call spins inside setL1   *)
(* and the number of L1 entries never exceeds maxSize.                     *)
(***************************************************************************)
C19_L1Bounded == ~hung /\ Len(l1Cache) <= config.l1MaxSize

(***************************************************************************)
(* C20: resetStats sets every hit, miss and eviction counter to 0 and      *)
(* changes no cached entry of L1 or L2, so that a get issued after it      *)
(* returns what it would have returned without it.                         *)
(***************************************************************************)
\* What get(q) returns when it is called now and the L2 read succeeds.
Lookup(q) ==
    LET key == KeyOf[q]
    IN  IF L1Fresh(l1Cache, key, now) THEN L1Get(l1Cache, key).data
        ELSE IF ClientAfterInit(TRUE) = "client" /\ config.l2Enabled
                  /\ RedisHas(key, now)
             THEN JsonParse(redisStore[key].data)
             ELSE Null

C20_ResetStatsKeepsEntries ==
    [][ (ret'.op = "resetStats" /\ ~hung') =>
          /\ l1Stats' = NoL1Stats
          /\ l2Stats' = NoL2Stats
          /\ getStats' = [totalHits |-> 0, totalMisses |-> 0]
          /\ UNCHANGED <<l1Cache, redisStore, l2Redis, initialized, config, now, hung>>
          /\ \A q \in StatsQueries : Lookup(q)' = Lookup(q) ]_vars

\* resetStats has just run on a cache that holds an entry in both tiers.
C20_Witness ==
    /\ ret.op = "resetStats"
    /\ l1Cache # <<>>
    /\ \E k \in CacheKeys : RedisHas(k, now)

(***************************************************************************)
(* C21: tier order on read.  get(q) reads L2 only when L1 holds no         *)
(* unexpired entry for q; on an L2 hit it returns the parsed L2 value and  *)
(* stores it in L1 with a fresh expiry; and a get(q) that follows at once, *)
(* within the L1 TTL, is an L1 hit with the same value and no L2 read.     *)
(***************************************************************************)
C21_TierOrderOnRead ==
    [][ LET key == KeyOf[ret'.query]
        IN  (ret'.op = "get" /\ ~hung') =>
              /\ ret'.l2read => ~L1Fresh(l1Cache, key, now)
              /\ L1Fresh(l1Cache, key, now) => ret'.tier = "l1"
              /\ ret'.tier = "l2" =>
                   /\ ret'.l2read
                   /\ RedisHas(key, now)
                   /\ ret'.data = JsonParse(redisStore[key].data)
                   /\ L1Has(l1Cache', key)
                   /\ L1Get(l1Cache', key).data = ret'.data
                   /\ L1Get(l1Cache', key).expires = now' + config.l1Ttl
              /\ (ret.op = "get" /\ ret.tier = "l2" /\ KeyOf[ret.query] = key)
                   => (ret'.tier = "l1" /\ ~ret'.l2read /\ ret'.data = ret.data) ]_vars

\* A get has just been served from L2 and left the value in L1.
C21_Witness ==
    /\ ret.op = "get" /\ ret.tier = "l2"
    /\ L1Has(l1Cache, KeyOf[ret.query])
    /\ L1Get(l1Cache, KeyOf[ret.query]).data = ret.data

(***************************************************************************)
(* C22: invalidatePattern(p) leaves L1 empty for every pattern p, and when *)
(* L2 is enabled and reachable no L2 key matching p under the configured   *)
(* key prefix remains afterwards.                                          *)
(***************************************************************************)
C22_PatternLeavesNoMatch ==
    (ret.op = "invalidatePattern" /\ ~hung) =>
        /\ l1Cache = <<>>
        /\ (l2Redis = "client" /\ config.l2Enabled /\ ~ret.l2err) =>
              \A k \in CacheKeys :
                  GlobMatches(config.l2KeyPrefix, ret.pattern,
                              ServerKey(config.l2KeyPrefix, k))
                  => ~RedisHas(k, now)

(***************************************************************************)
(* C23: table creation tolerates races.  When two add calls run            *)
(* concurrently while the table does not exist, the 'already exists'       *)
(* error the engine gives the second createTable is tolerated: the call    *)
(* completes without error and its rows are stored.                        *)
(***************************************************************************)
C23_CreateRaceTolerated ==
    (adRet.op \in {"addChunks", "addCodeBlocks"} /\ adRet.fault = ExistsError)
    => (~adRet.raised /\ adRet.touched = adRet.given)

RowOf(found) ==
    IF "chunk" \in DOMAIN found THEN found.chunk ELSE found.code_block

C25_SearchRanked ==
    (adRet.op \in {"search", "searchCodeBlocks"} /\ ~adRet.raised) =>
        /\ Len(adRet.results) <= adRet.limit
        /\ \A i \in 1..Len(adRet.results) :
              LET distance == Distance(RowOf(adRet.results[i]).embedding, adRet.vector)
              IN  /\ distance \in 0..2
                  /\ adRet.results[i].score = 2 - distance
                  /\ adRet.results[i].score \in 0..2
        /\ \A i \in 1..Len(adRet.results), j \in 1..Len(adRet.results) :
              i < j => adRet.results[i].score >= adRet.results[j].score

\* A search over three stored rows has returned two results with different
\* scores.
C25_Witness ==
    /\ adRet.op = "search" /\ ~adRet.raised
    /\ Len(chunksTable.rows) = 3
    /\ adRet.limit = 2
    /\ Len(adRet.results) = 2
    /\ adRet.results[1].score > adRet.results[2].score

(***************************************************************************)
(* C26: source selection.  When the parent directory holds at least one    *)
(* name '<db>.backup.<suffix>', migrateToV1 reads from a backup, and from  *)
(* the one with the greatest timestamp among those that carry one; when    *)
(* it holds none it reads from the database path.                          *)
(***************************************************************************)
BackupsIn(listing) == { listing[i] : i \in { n \in 1..Len(listing) :
                                               StartsWithBackup(listing[n]) } }

C26_MostRecentBackup ==
    migPc = "located" =>
        IF BackupsIn(files) = {} THEN oldDbPath = "db"
        ELSE /\ oldDbPath \in BackupsIn(files)
             /\ \A f \in BackupsIn(files) : Timestamp(oldDbPath) >= Timestamp(f)

(***************************************************************************)
(* Properties of the index parameters.                                     *)
(***************************************************************************)
\* C27: below 256 vectors createVectorIndexes skips indexing; from 256 on the
\* partition count is floor(sqrt(n)) held within 16..2048 and the sub-vector
\* count is floor(dim / 16) held within 4..256, every index built uses these
\* parameters, and computing the parameters alone builds nothing.
C27_IndexParameters ==
    LET n == fnCall.vectorCount
        dim == fnCall.embeddingDim
        p == fnCall.config.num_partitions
        s == fnCall.config.num_sub_vectors
    IN  /\ (fnCall.fn = "createVectorIndexes" /\ n < 256) =>
              (fnCall.skipped /\ fnCall.created = <<>> /\ ~fnCall.raised)
        /\ (fnCall.fn = "createVectorIndexes" /\ n >= 256) => ~fnCall.skipped
        /\ (\/ fnCall.fn = "createVectorIndexes" /\ n >= 256
            \/ fnCall.fn = "calculateIVF_PQ_Params") =>
              /\ p \in 16..2048
              /\ p > 16 => p * p <= n
              /\ p < 2048 => n < (p + 1) * (p + 1)
              /\ s \in 4..256
              /\ s > 4 => 16 * s <= dim
              /\ s < 256 => dim < 16 * (s + 1)
              /\ \A i \in 1..Len(fnCall.created) :
                    /\ fnCall.created[i].num_partitions = p
                    /\ fnCall.created[i].num_sub_vectors = s
        /\ fnCall.fn = "calculateIVF_PQ_Params" => fnCall.created = <<>>

C27_Witness ==
    /\ fnCall.fn = "createVectorIndexes"
    /\ fnCall.vectorCount > 2048 * 2048
    /\ fnCall.config.num_partitions = 2048
    /\ fnCall.config.num_sub_vectors = 96
    /\ Len(fnCall.created) = 2

(***************************************************************************)
(* Properties of the request timeouts.                                     *)
(***************************************************************************)
\* A variable holds a positive integer string: it is set and, white space
\* around it apart, made of decimal digits only, one of them not zero.
PositiveIntegerString(v) ==
    LET t == Trim(v.text)
    IN  /\ v.set
        /\ t # <<>>
        /\ \A i \in 1..Len(t) : IsDigit(t[i])
        /\ \E i \in 1..Len(t) : t[i] # "0"

RECURSIVE Decimal(_)
Decimal(n) ==
    IF n < 10 THEN <<DigitChars[n + 1]>>
    ELSE Append(Decimal(n \div 10), DigitChars[(n % 10) + 1])

\* The number x is the integer the variable v spells.
Spells(v, x) ==
    /\ x.kind = "finite"
    /\ x.value > 0
    /\ Decimal(x.value) = Significant(Trim(v.text))

\* C28: getRequestTimeout(op) is a positive integer: the value of the
\* operation's variable when that is a positive integer string, otherwise
\* the value of the global variable when that is one, otherwise 30000.
C28_TimeoutHierarchy ==
    fnCall.fn = "getRequestTimeout" =>
        LET specific == CASE fnCall.operation = "ai-search" -> env[ENV_TIMEOUT_AI_SEARCH]
                          [] fnCall.operation = "embedding" -> env[ENV_TIMEOUT_EMBEDDING]
                          [] OTHER -> env[ENV_TIMEOUT_GLOBAL]
            global == env[ENV_TIMEOUT_GLOBAL]
            x == fnCall.returned
        IN  /\ x.kind = "finite"
            /\ x.value > 0
            /\ IF PositiveIntegerString(specific) THEN Spells(specific, x)
               ELSE IF PositiveIntegerString(global) THEN Spells(global, x)
               ELSE x.value = 30000

\* The code block of an entry of a list searchCodeBlocks or
\* getCodeBlocksByDocument returned.
BlockOf(found) == IF "code_block" \in DOMAIN found THEN found.code_block ELSE found

\* C29: once removeChunks(d) has completed, the searchCodeBlocks or
\* getCodeBlocksByDocument call that follows returns no code block of d.
C29_BlocksGoWithDocument ==
    [][ ( /\ adRet.op = "removeChunks"
          /\ ~adRet.raised
          /\ adRet'.op \in {"searchCodeBlocks", "getCodeBlocksByDocument"} ) =>
            \A i \in 1..Len(adRet'.results) :
                BlockOf(adRet'.results[i]).document_id # adRet.doc ]_vars

\* C30: two queries that differ in the value of a field, a field of a nested
\* object included, have different cache keys: a get issued right after a
\* set with a query that is not field-wise equal looks up another key.
C30_KeysInjective ==
    [][ (GetRightAfterSet /\ ~hung' /\ ~SameFields(ret.query, ret'.query))
        => KeyOf[ret.query] # KeyOf[ret'.query] ]_vars

(***************************************************************************)
(* Properties of the calls suspended on Redis.                             *)
(***************************************************************************)
\* C31: a get(q) that starts after invalidate(q) has completed, no set(q, v)
\* having been issued since, returns nothing, also when another get(q) was
\* waiting for its L2 reply while the invalidate ran.
C31_InvalidationHolds ==
    (ret.op = "get" /\ ret.afterInvalidate) => ret.tier = "miss"

\* C32: initialize, addChunks and addCodeBlocks attempt an index creation
\* only on a table that holds at least the 256 rows the index needs to be
\* trained.
C32_IndexOnlyWhenTrainable ==
    (adRet.op \in {"initialize", "addChunks", "addCodeBlocks"} /\ adRet.index # {})
        => \/ Len(chunksTable.rows) >= MinVectorsForIvfPq
           \/ Len(blocksTable.rows) >= MinVectorsForIvfPq

\* The failures the environment of the migration can cause: a table that
\* cannot be created, a write or an index build that fails.
InjectedFaults ==
    {"create failed", "index failed", "commit conflict", "write failed",
     "Migration validation failed"}

\* C33: a migration whose source has a chunks table and no code_blocks
\* table, and which meets no failure of the engine, returns success = true
\* with codeBlocksMigrated = 0.
C33_MissingCodeBlocksTolerated ==
    ( /\ migPc = "returned"
      /\ ~options.dryRun
      /\ dbs0[oldDbPath]["chunks"].exists
      /\ ~dbs0[oldDbPath]["code_blocks"].exists
      /\ \A i \in 1..Len(result.errors) : result.errors[i] \notin InjectedFaults )
        => (result.success /\ result.codeBlocksMigrated = 0)

\* The schema_version rows the run has written.
VersionRowsWritten ==
    Len(SelectSeq(RowsAt("db", "schema_version"), LAMBDA r : r.id = "now"))

\* C34: a migration that is not a dry run has written one schema_version
\* row when it returns success = true and none when it returns
\* success = false.
C34_VersionOnlyOnSuccess ==
    (migPc = "returned" /\ ~options.dryRun)
        => VersionRowsWritten = (IF result.success THEN 1 ELSE 0)

(***************************************************************************)
(* Properties of the keyword index.                                        *)
(***************************************************************************)
\* The times a token stands in a text, whatever its case.
Occurrences(text, token) ==
    Cardinality({ i \in 1..Len(text) : toLowerCase(text[i]) = token })

\* C35: every content keyword row of a document carries as frequency the
\* number of occurrences of its token in the chunk text of the document, and
\* the content keywords are the tokens of more than three characters (the
\* most frequent 40 of them).
C35_KeywordFrequency ==
    fnCall.fn = "buildKeywordIndex" =>
        LET content == SelectSeq(fnCall.rows, LAMBDA r : r.source = "content")
        IN  /\ \A i \in 1..Len(content) :
                  content[i].frequency = Occurrences(fnCall.content, content[i].keyword)
            /\ { content[i].keyword : i \in 1..Len(content) }
                 = { toLowerCase(fnCall.content[i]) : i \in
                       { j \in 1..Len(fnCall.content) : WordLength(fnCall.content[j]) > 3 } }

\* No two entries of a sequence are equal.
NoDuplicates(rows) ==
    \A i \in 1..Len(rows), j \in 1..Len(rows) : rows[i] = rows[j] => i = j

\* C36: after migrateDocuments the tags and language codes are in lower
\* case, and no two rows of document_tags hold the same (document_id, tag),
\* nor two rows of document_languages the same (document_id, language_code).
C36_LabelsFoldedAndUnique ==
    fnCall.fn = "migrateDocuments" =>
        /\ \A i \in 1..Len(fnCall.document_tags) :
              fnCall.document_tags[i].tag \in {"api", "db"}
        /\ \A i \in 1..Len(fnCall.document_languages) :
              fnCall.document_languages[i].language_code = "ts"
        /\ NoDuplicates(fnCall.document_tags)
        /\ NoDuplicates(fnCall.document_languages)

\* C37: a cache instance has at most one Redis client open at any time,
\* also when several calls find it uninitialized before the first
\* initialize() has finished.
C37_OneClient == clients <= 1

\* C38: the combined statistics count each lookup once: a get that
\* completes adds exactly one to totalHits + totalMisses, and it adds to
\* totalHits exactly when it returned a value.
C38_EachLookupCountedOnce ==
    [][(ret'.op = "get" /\ ~hung' /\ <<l1Stats, l2Stats>>' # <<l1Stats, l2Stats>>)
          => /\ getStats'.totalHits + getStats'.totalMisses
                   = getStats.totalHits + getStats.totalMisses + 1
             /\ getStats'.totalHits
                   = getStats.totalHits + (IF ret'.data # Null THEN 1 ELSE 0)]_vars

\* C39: a set of a query that L1 already holds replaces that entry and
\* evicts no other one: the other keys of L1 and the eviction counter are
\* as before, also when L1 is at capacity.
C39_ReplaceEvictsNothing ==
    [][ LET key == KeyOf[ret'.query]
        IN  (ret'.op = "set" /\ ~hung' /\ L1Has(l1Cache, key))
               => /\ L1Keys(l1Cache') \ {key} = L1Keys(l1Cache) \ {key}
                  /\ L1Has(l1Cache', key)
                  /\ l1Stats'.evictions = l1Stats.evictions ]_vars

DataOperations ==
    {"addChunks", "addCodeBlocks", "removeChunks", "search", "searchCodeBlocks",
     "getChunk", "getCodeBlocksByDocument"}

\* A step of the engine finishing an index build, which is no call.
EngineStep ==
    /\ adRet' = adRet
    /\ <<chunksIndex, blocksIndex>>' # <<chunksIndex, blocksIndex>>

\* C40: a data operation called on an adapter that is not initialized
\* (never initialized, initialize failed, or closed) throws 'LanceDB not
\* initialized' and touches neither table, handle nor index; called on an
\* initialized adapter it never throws that error; a failed initialize
\* leaves the adapter uninitialized, a successful one (also after close)
\* makes it initialized, and close makes it uninitialized.
C40_LifecycleGuard ==
    [][ /\ (adRet'.op \in DataOperations /\ ~EngineStep)
              => IF adapterInitialized
                 THEN adRet'.error # NotInitialized
                 ELSE /\ adRet'.raised
                      /\ adRet'.error = NotInitialized
                      /\ adRet'.fault = NoError
                      /\ UNCHANGED <<adapterInitialized, table, chunksTable,
                                     chunksIndex, codeBlocksTable, blocksTable,
                                     blocksIndex>>
        /\ adRet'.op = "initialize" => (adapterInitialized' <=> ~adRet'.raised)
        /\ adRet'.op = "close" => ~adapterInitialized' ]_vars

\* A data operation was refused on an adapter that had been initialized and
\* written to before it was closed.
C40_Witness ==
    /\ adRet.op \in DataOperations
    /\ adRet.error = NotInitialized
    /\ ~adapterInitialized
    /\ chunksTable.exists
    /\ blocksTable.exists

====
